---- MODULE Spec2Model ----
(***************************************************************************)
(* Model of the Trivy Web UI backend (lazycatapps/trivy): the scan         *)
(* scheduler (scanServiceImpl), the file based task store                  *)
(* (FileBasedScanRepository), the per-task log hub (ScanTask.AddLog and    *)
(* its listeners) and the SSE log handler (ScanHandler.StreamLogs).        *)
(***************************************************************************)
EXTENDS Integers, Sequences, FiniteSets, TLC

(***************************************************************************)
(* Bounds of the model.                                                    *)
(***************************************************************************)
MaxTasks == 3          \* task ids that CreateScanTask can hand out
MaxWorkersCfg == 1     \* config.MaxWorkers is this, or drawn from 0..this
MaxViewers == 2        \* StreamLogs requests (one listener channel each)
StreamTasks == 1       \* tasks submitted in the log stream runs
StreamOutLines == 1    \* lines a scan subprocess prints (log stream runs)
OverflowOutLines == 150 \* lines a scan subprocess prints (overflow runs)
OverflowConnectBy == 2 \* overflow runs: viewers connect before the
                       \* subprocess has printed more lines than this
StoreTasks == 2        \* ids the callers of the repository use
MaxNow == 2            \* days the clock advances
ListNow == 1           \* days the clock advances in the listing runs
MaxRetentionDays == 1  \* config.ScanRetentionDays is drawn from 0..this
RetentionTasks == 2    \* tasks submitted in the retention runs
MaxPage == 3           \* list requests ask for pages 1..MaxPage and MaxInt
MaxPageSize == 2       \* list requests ask for page sizes 1..MaxPageSize
IntBits == 24          \* width of a Go int in the model (64 in the program)
ExecTasks == 2         \* tasks submitted in the runs of scan outcomes
ExecOutLines == 1      \* lines a scan subprocess prints in those runs
SpecTasks == 2         \* tasks submitted in the runs of the whole scheduler
ShippedTasks == 2      \* tasks submitted to the service as shipped
FairTasks == 2         \* tasks submitted in the runs that check progress
OwnedTasks == 2        \* tasks submitted in the runs of DeleteAllTasks
RaceTasks == 1         \* tasks submitted in the runs of racing requests
MaxReportRequests == 1 \* GetReport calls under way at the same time
MaxDeleteCalls == 2    \* DeleteScan requests under way at the same time
ProducerLines == 2     \* lines printed on stdout, and on stderr, by a scan
                       \* whose two output streams are followed

(***************************************************************************)
(* Program constants.                                                      *)
(***************************************************************************)
DefaultMaxWorkers == 5   \* NewScanServiceWithExecutor: maxWorkers = 5
FlagMaxWorkers == 5      \* init: the default of the flag --max-workers
FlagRetentionDays == 90  \* init: the default of --scan-retention-days
ListenerCap == 100       \* AddLogListener: make(chan string, 100)
Nil == 0                 \* the nil *models.ScanTask

ScanStatusQueued == "queued"
ScanStatusRunning == "running"
ScanStatusCompleted == "completed"
ScanStatusFailed == "failed"

Ids == 1..MaxTasks
Viewers == 1..MaxViewers

VARIABLES
    cfgMaxWorkers, \* config.MaxWorkers (immutable for the deployment)
    cfgServerURL,  \* config.ServerURL (immutable for the deployment)
    cfgRetentionDays, \* config.ScanRetentionDays (immutable)
    now,           \* the wall clock, in days
    reports,       \* <<id, ext>> of the files reports/users/{user}/{id}.{ext}
    ret,           \* what the last repository call returned to its caller
    cleaner,       \* position of the cleanupWorker goroutine
    phase,         \* the server process: "up", "stopping" (Stop called),
                   \* or "down" (runServer has returned)
    workerUp,      \* the queueWorker goroutine is alive
    sweepTick,     \* 1 while processQueue holds the slot it took, else 0
    workerPool,    \* number of tokens in the workerPool channel
    tasks,         \* the *models.ScanTask objects of the process, by id
    cache,         \* FileBasedScanRepository.cache: ids in the index
    disk,          \* metadata.json per task, or NoFile
    results,       \* result.json per task: the Result in it, or "none"
    exec,          \* position of the goroutine running executeScan(task)
    nextId,        \* next fresh task id (uuid.New)
    resp,          \* last HTTP response sent by a handler
    chans,         \* the listener channel of each StreamLogs request
    viewer,        \* position and output of each StreamLogs request
    reqs           \* the service calls that are between two of their steps

vars == <<cfgMaxWorkers, cfgServerURL, cfgRetentionDays, now, reports, ret,
          cleaner, phase, workerUp, sweepTick, workerPool, tasks, cache,
          disk, results, exec, nextId, resp, chans, viewer, reqs>>

(***************************************************************************)
(* models.ScanTask and its persisted form.                                 *)
(***************************************************************************)
NoTask == [owner |-> "", format |-> "", startTime |-> 0, endTime |-> 0,
           status |-> "none", message |-> "", hasEnd |-> FALSE,
           errorOutput |-> "", output |-> <<>>, result |-> "none",
           LogLines |-> <<>>, LogListeners |-> <<>>]

\* CreateScanTask: if req.Format == "" { req.Format = "json" }.
DefaultFormat == "json"

\* The formats that the scan requests of the model ask for, out of the
\* strings the handler lets through (it checks none): the default, and one
\* that is neither "json" nor "table".
Formats == {DefaultFormat, "sarif"}

\* getUserIdentifier without an OIDC session: the anonymous user.
SharedUser == "anonymous"

\* NewScanTask(id, userID, ...) at time.Now(), for the shared user and a
\* request that names no format.
NewScanTask == [owner |-> SharedUser, format |-> DefaultFormat,
                startTime |-> now, endTime |-> 0,
                status |-> ScanStatusQueued,
                message |-> "Task created and queued", hasEnd |-> FALSE,
                errorOutput |-> "", output |-> <<>>, result |-> "none",
                LogLines |-> <<>>, LogListeners |-> <<>>]

\* NewScanTask(id, userID, ...) for any user.
NewScanTaskOf(userID) == [NewScanTask EXCEPT !.owner = userID]

\* NewScanTask(id, userID, image, scanConfig) with scanConfig.Format set.
NewScanTaskWith(userID, format) ==
    [NewScanTask EXCEPT !.owner = userID, !.format = format]

NoFile == [owner |-> "", format |-> "", startTime |-> 0, endTime |-> 0,
           status |-> "none", message |-> "", hasEnd |-> FALSE,
           errorOutput |-> "", output |-> <<>>, result |-> "none"]

\* A metadata.json that json.Unmarshal rejects.
Unparsable == [NoFile EXCEPT !.status = "unparsable"]

\* saveTaskToFile: the copy that is marshalled omits LogLines, LogListeners.
taskCopy(task) == [owner |-> task.owner, format |-> task.format,
                   startTime |-> task.startTime, endTime |-> task.endTime,
                   status |-> task.status, message |-> task.message,
                   hasEnd |-> task.hasEnd, errorOutput |-> task.errorOutput,
                   output |-> task.output, result |-> task.result]

\* What result.json of a task can hold: nothing (no such file), a Result
\* with or without a summary, or bytes that json.Unmarshal rejects.
NoResult == "none"

CutResult == "cut"

\* A load that takes the Result from metadata.json alone.
loadTaskFromFileMetadataOnly(file, rf) ==
    [owner |-> file.owner, format |-> file.format,
     startTime |-> file.startTime, endTime |-> file.endTime,
     status |-> file.status, message |-> file.message,
     hasEnd |-> file.hasEnd, errorOutput |-> file.errorOutput,
     output |-> file.output, result |-> file.result,
     LogLines |-> <<>>, LogListeners |-> <<>>]

\* loadTaskFromFile: metadata.json (file) is unmarshalled, the transient
\* fields start empty, and a result.json (rf) that is there and parses
\* replaces task.Result (lines 622-633).
loadTaskFromFile(file, rf) ==
    [owner |-> file.owner, format |-> file.format,
     startTime |-> file.startTime, endTime |-> file.endTime,
     status |-> file.status, message |-> file.message,
     hasEnd |-> file.hasEnd, errorOutput |-> file.errorOutput,
     output |-> file.output,
     result |-> IF rf \in {NoResult, CutResult} THEN file.result ELSE rf,
     LogLines |-> <<>>, LogListeners |-> <<>>]

\* t is an element of the sequence q.
InSeq(t, q) == \E i \in 1..Len(q) : q[i] = t

\* NewScanServiceWithExecutor: capacity of the workerPool channel.
maxWorkers(cfg) == IF cfg <= 0 THEN DefaultMaxWorkers ELSE cfg

capWorkerPool == maxWorkers(cfgMaxWorkers)

(***************************************************************************)
(* The log hub of one task: AddLog and the listener channels.              *)
(***************************************************************************)
NoChan == [open |-> FALSE, buf |-> <<>>]

\* A ring buffer instead: a full channel drops its oldest line.
trySendDropOldest(ch, line) ==
    IF ~ch.open THEN ch
    ELSE IF Len(ch.buf) < ListenerCap
    THEN [ch EXCEPT !.buf = Append(@, line)]
    ELSE [ch EXCEPT !.buf = Append(Tail(@), line)]

\* select { case ch <- line: default: } on one channel.
trySend(ch, line) ==
    IF ch.open /\ Len(ch.buf) < ListenerCap
    THEN [ch EXCEPT !.buf = Append(@, line)]
    ELSE ch

\* A broadcast that serves only the listener that registered first.
broadcastFirstOnly(chs, listeners, line) ==
    [c \in DOMAIN chs |->
        IF listeners # <<>> /\ listeners[1] = c
        THEN trySend(chs[c], line) ELSE chs[c]]

\* AddLog: the broadcast loop over t.LogListeners.
broadcast(chs, listeners, line) ==
    [c \in DOMAIN chs |->
        IF \E i \in 1..Len(listeners) : listeners[i] = c
        THEN trySend(chs[c], line) ELSE chs[c]]

\* An append that races with another one: both read the same slice and the
\* later write takes the slot of the earlier one.
AddLogUnlocked(task, line) ==
    [task EXCEPT !.LogLines =
        IF @ = <<>> THEN <<line>> ELSE Append(SubSeq(@, 1, Len(@) - 1), line)]

\* AddLog: t.LogLines = append(t.LogLines, line).
AddLog(task, line) == [task EXCEPT !.LogLines = Append(@, line)]

RECURSIVE AddLogs(_, _)
AddLogs(task, lines) ==
    IF lines = <<>> THEN task
    ELSE AddLogs(AddLog(task, Head(lines)), Tail(lines))

RECURSIVE broadcasts(_, _, _)
broadcasts(chs, listeners, lines) ==
    IF lines = <<>> THEN chs
    ELSE broadcasts(broadcast(chs, listeners, Head(lines)), listeners,
                    Tail(lines))

\* CloseAllLogListeners: close every channel, empty the listener list.
closeAll(chs, listeners) ==
    [c \in DOMAIN chs |->
        IF \E i \in 1..Len(listeners) : listeners[i] = c
        THEN [chs[c] EXCEPT !.open = FALSE] ELSE chs[c]]

\* A CloseAllLogListeners that keeps the closed channels in the list.
CloseAllKeepsList(task) == task

CloseAllLogListeners(task) == [task EXCEPT !.LogListeners = <<>>]

(***************************************************************************)
(* Initial state: a fresh deployment after runServer has built the         *)
(* repository on an empty reports directory and called Start().            *)
(***************************************************************************)
NoResp == [op |-> "none", id |-> Nil, code |-> 0]
NoExec == [pc |-> "none", lines |-> 0, elines |-> 0, todo |-> <<>>,
           out |-> "none", at |-> 0]
NoViewer == [pc |-> "idle", task |-> Nil, out |-> <<>>]
DonePcs == {"closed", "gone"}

\* Nothing returned yet.
NoRet == [op |-> "none"]

\* A deleteReport call that has returned (or has not begun): no extension is
\* left to look at.  Under way, pc tells whether its next file-system call
\* is the os.Stat ("stat") or the os.Remove ("remove") of the first
\* extension left.
NoReport == [pc |-> "done", exts |-> <<>>]

\* No retention sweep and no DeleteAllTasks call under way: nothing listed,
\* nothing left to delete, no task between its deleteReport and its Delete.
NoSweep == [todo |-> {}, cur |-> Nil, old |-> {}, err |-> {}, cutoff |-> 0,
            dr |-> NoReport]
NoDeleteAll == [owner |-> "", todo |-> <<>>, cur |-> Nil, old |-> {},
                err |-> {}, dr |-> NoReport]

\* No DeleteScan request in a slot of the handler pool.  Under way, pc is
\* "got" after the GetTask of the handler, then that of its deleteReport.
NoDelete == [id |-> Nil, pc |-> "none", exts |-> <<>>]

\* No ListTasks call under way.  Under way: what repo.List gave it and the
\* status ToSummary has read for the tasks converted so far.
NoList == [owner |-> "", page |-> 0, pageSize |-> 0, items |-> <<>>,
           total |-> 0, sums |-> <<>>, pc |-> "none"]

\* No service call is between two of its steps.  del: the DeleteScan
\* requests; rep: the GetReport calls; sweep: cleanupOldReports; all:
\* DeleteAllTasks; list: ListTasks.
NoReqs == [del |-> [n \in 1..MaxDeleteCalls |-> NoDelete], rep |-> {},
           sweep |-> NoSweep, all |-> NoDeleteAll, list |-> NoList]

\* A Start that launches the cleanupWorker whatever the window.
cleanerAtStartAlways(days) == "startup"

\* Start: the cleanupWorker is launched only with a retention window.
cleanerAtStart(days) == IF days > 0 THEN "startup" ELSE "none"

\* The part of the initial state that does not depend on the configuration.
Fresh ==
    /\ phase = "up"
    /\ workerUp = TRUE
    /\ sweepTick = 0
    /\ workerPool = 0
    /\ tasks = [t \in Ids |-> NoTask]
    /\ cache = {}
    /\ disk = [t \in Ids |-> NoFile]
    /\ results = [t \in Ids |-> NoResult]
    /\ exec = [t \in Ids |-> NoExec]
    /\ nextId = 1
    /\ resp = NoResp
    /\ chans = [v \in Viewers |-> NoChan]
    /\ viewer = [v \in Viewers |-> NoViewer]
    /\ now = 0
    /\ reports = {}
    /\ ret = NoRet
    /\ reqs = NoReqs

\* The --trivy-server flag defaults to "" (no server configured); the
\* deployment keeps every scan (--scan-retention-days 0) and runs one scan
\* at a time.
Init ==
    /\ cfgMaxWorkers = MaxWorkersCfg
    /\ cfgServerURL = ""
    /\ cfgRetentionDays = 0
    /\ cleaner = cleanerAtStart(cfgRetentionDays)
    /\ Fresh

(***************************************************************************)
(* FileBasedScanRepository: durable write first, then the index.  How a    *)
(* write to the file system ends is an input of the model.                 *)
(***************************************************************************)
\* saveTaskToFile ends in one of five ways: every write succeeds ("ok");
\* it fails before metadata.json is touched, in MkdirAll, in MarshalIndent
\* or in the open of WriteFile ("untouched"); WriteFile has truncated
\* metadata.json and fails before the new content is in it ("cut"); or
\* metadata.json is written and the write of result.json fails, before it
\* touches the file ("late") or after it has truncated it ("latecut").
WriteOutcomes == {"ok", "untouched", "cut", "late", "latecut"}

\* result.json is written only "if task.Result != nil": without a result
\* there is no such write to fail.
saveOutcome(task, w) ==
    IF w \in {"late", "latecut"} /\ task.result = "none" THEN "ok" ELSE w

\* saveTaskToFile: the error it returns ("" for nil).
saveErr(task, w) == IF saveOutcome(task, w) = "ok" THEN "" ELSE "write"

\* saveTaskToFile: metadata.json of every task afterwards.
saveTaskToFile(d, t, task, w) ==
    CASE saveOutcome(task, w) \in {"ok", "late", "latecut"} ->
             [d EXCEPT ![t] = taskCopy(task)]
      [] saveOutcome(task, w) = "cut" -> [d EXCEPT ![t] = Unparsable]
      [] OTHER -> d

\* saveTaskToFile: result.json of every task afterwards.  The file is
\* written after metadata.json when the task has a Result, and a task
\* without one leaves the file of an earlier write where it is.
saveResultFile(rf, t, task, w) ==
    CASE task.result = "none" -> rf
      [] saveOutcome(task, w) = "ok" -> [rf EXCEPT ![t] = task.result]
      [] saveOutcome(task, w) = "latecut" -> [rf EXCEPT ![t] = CutResult]
      [] OTHER -> rf

\* Update: not-found when the id is not in the cache, else write the file.
\* The cache keeps the same pointer, already mutated by the caller.
repoUpdate(d, c, t, task, w) ==
    IF t \in c THEN saveTaskToFile(d, t, task, w) ELSE d

\* Update: result.json afterwards.
repoUpdateResult(rf, c, t, task, w) ==
    IF t \in c THEN saveResultFile(rf, t, task, w) ELSE rf

\* GetByID: the id is in the cache (a nil task, "task not found", if not).
GetByIDFinds(c, t) == t \in c

Serving == phase \in {"up", "stopping"}

\* A task object that left the index lives on while a goroutine or a
\* request holds its pointer: a log viewer, a GetReport call, the handler
\* or the goroutine of its scan.
HeldByRequest(t) ==
    \/ \E v \in Viewers : viewer[v].task = t /\ viewer[v].pc \notin DonePcs
    \/ \E r \in reqs.rep : r.id = t
    \/ InSeq(t, reqs.list.items)

Held(t) == t \in cache \/ HeldByRequest(t)

Referenced(t) == exec[t].pc # "none" \/ HeldByRequest(t)

\* The positions of the goroutine that runs executeScan for a task, from the
\* select that admitted it to the release of its worker slot.
ScanPcs == {"spawned", "marking", "marked", "started", "fetching", "version",
            "warning", "versioned", "built", "running", "saving", "reported",
            "saved", "donemark", "completing", "failmark", "failing",
            "logged", "closed", "updated"}

(***************************************************************************)
(* scanServiceImpl.CreateScanTask, called by ScanHandler.CreateScan, in    *)
(* its two steps: repo.Create, then the select on the worker pool.         *)
(***************************************************************************)
\* Mutants of tryAcquire: a pool one slot too large; a pool that is never free.
tryAcquireOffByOne(pool, capacity) == pool <= capacity

tryAcquireNever(pool, capacity) == FALSE

\* The non-blocking select on the worker pool: TRUE when a slot is taken.
tryAcquire(pool, capacity) == pool < capacity

\* Lines 300-339: the task is built and handed to repo.Create.  userID: what
\* getUserIdentifier gave the handler; format: req.Format after the default.
\* A Create that fails ends the call ("failed to create task"); the id is
\* used up when the failure left a file behind.
CreateScanTaskCreate(userID, format, w) ==
    /\ Serving
    /\ nextId <= MaxTasks
    /\ LET task == NewScanTaskWith(userID, format)
       IN /\ disk' = saveTaskToFile(disk, nextId, task, w)
          /\ results' = saveResultFile(results, nextId, task, w)
          /\ IF saveErr(task, w) = ""
             THEN /\ tasks' = [tasks EXCEPT ![nextId] = task]
                  /\ cache' = cache \cup {nextId}
                  /\ exec' = [exec EXCEPT ![nextId].pc = "created"]
             ELSE UNCHANGED <<tasks, cache, exec>>
          /\ nextId' = IF disk' = disk THEN nextId ELSE nextId + 1
    /\ resp' = NoResp
    /\ UNCHANGED <<cfgMaxWorkers, cfgServerURL, cfgRetentionDays, reqs, now,
                   reports, ret, cleaner, phase, workerUp, sweepTick,
                   workerPool, chans, viewer>>

\* Lines 344-358: the select.  With a slot the goroutine of executeScan is
\* started; without one ("All workers busy") the task is left as it is.  The
\* handler then returns the task.
CreateScanTaskSelect(t) ==
    /\ Serving
    /\ exec[t].pc = "created"
    /\ IF tryAcquire(workerPool, capWorkerPool)
       THEN /\ workerPool' = workerPool + 1
            /\ exec' = [exec EXCEPT ![t].pc = "spawned"]
            /\ UNCHANGED tasks
       ELSE /\ exec' = [exec EXCEPT ![t].pc = "none"]
            /\ tasks' = [tasks EXCEPT ![t] = IF Held(t) THEN @ ELSE NoTask]
            /\ UNCHANGED workerPool
    /\ resp' = NoResp
    /\ UNCHANGED <<cfgMaxWorkers, cfgServerURL, cfgRetentionDays, reqs, now,
                   reports, ret, cleaner, phase, workerUp, sweepTick, cache,
                   disk, results, nextId, chans, viewer>>

(***************************************************************************)
(* scanServiceImpl.executeScan, step by step: every AddLog, every          *)
(* repo.Update and every group of field writes is a step of its own, and   *)
(* other goroutines run in between.                                        *)
(***************************************************************************)
\* What every step of executeScan leaves alone.
ScanFrame ==
    /\ resp' = NoResp
    /\ UNCHANGED <<cfgMaxWorkers, cfgServerURL, cfgRetentionDays, reqs, now,
                   ret, cleaner, phase, workerUp, sweepTick, cache, nextId,
                   viewer>>

\* task.AddLog(line) by the goroutine of task t: the line is stored and
\* offered to every listener.
ScanAddLog(t, line) ==
    /\ tasks' = [tasks EXCEPT ![t] = AddLog(@, line)]
    /\ chans' = broadcast(chans, tasks[t].LogListeners, line)

\* Lines 366-367: the fields executeScan writes first, in this order.
MarkFields == <<"status", "message">>

\* One of these assignments.
markTask(task, field) ==
    IF field = "status" THEN [task EXCEPT !.status = ScanStatusRunning]
    ELSE [task EXCEPT !.message = "Scan in progress"]

\* Lines 366-367: task.Status, then task.Message, each written without a
\* lock: one assignment a step.
ExecMark(t) ==
    /\ Serving
    /\ exec[t].pc \in {"spawned", "marking"}
    /\ LET fields == IF exec[t].pc = "spawned" THEN MarkFields
                     ELSE exec[t].todo
       IN /\ tasks' = [tasks EXCEPT ![t] = markTask(@, Head(fields))]
          /\ exec' = [exec EXCEPT
                        ![t].todo = Tail(fields),
                        ![t].pc = IF Tail(fields) = <<>> THEN "marked"
                                  ELSE "marking"]
    /\ ScanFrame
    /\ UNCHANGED <<reports, workerPool, disk, results, chans>>

\* Line 368: AddLog("Scan started at ...").
ExecLogStart(t) ==
    /\ Serving
    /\ exec[t].pc = "marked"
    /\ ScanAddLog(t, "Scan started")
    /\ exec' = [exec EXCEPT ![t].pc = "started"]
    /\ ScanFrame
    /\ UNCHANGED <<reports, workerPool, disk, results>>

\* Line 369: s.repo.Update(task), its error dropped.
ExecUpdateRunning(t, w) ==
    /\ Serving
    /\ exec[t].pc = "started"
    /\ disk' = repoUpdate(disk, cache, t, tasks[t], w)
    /\ results' = repoUpdateResult(results, cache, t, tasks[t], w)
    /\ exec' = [exec EXCEPT ![t].pc = "fetching"]
    /\ ScanFrame
    /\ UNCHANGED <<reports, workerPool, tasks, chans>>

\* GetTrivyVersion: "trivy server URL not configured" when the URL is empty.
GetTrivyVersion(url, net) == url # "" /\ net

\* Lines 380-395: the lines logged about the version answer.  ver: the
\* request succeeded; vdb, jdb: the answer names a vulnerability database,
\* a Java database.
VersionLines(ver, vdb, jdb) ==
    IF ~ver THEN <<"Warning: Could not fetch Trivy Server version">>
    ELSE <<"Trivy Server version">>
         \o (IF vdb THEN <<"Vulnerability DB">> ELSE <<>>)
         \o (IF jdb THEN <<"Java DB">> ELSE <<>>)

\* Everything executeScan logs before it starts the subprocess.
StartLines(ver, vdb, jdb) ==
    <<"Scan started">> \o VersionLines(ver, vdb, jdb)
                       \o <<"Executing: trivy">>

\* Lines 377-379: GetTrivyVersion returns, after its HTTP request (up to
\* five seconds).  net: the server answered.
ExecVersion(t, net, vdb, jdb) ==
    /\ Serving
    /\ exec[t].pc = "fetching"
    /\ LET ver == GetTrivyVersion(cfgServerURL, net)
       IN /\ ver \/ (~vdb /\ ~jdb)
          /\ exec' = [exec EXCEPT
                        ![t].pc = IF ver THEN "version" ELSE "warning",
                        ![t].todo = VersionLines(ver, vdb, jdb)]
    /\ ScanFrame
    /\ UNCHANGED <<reports, workerPool, tasks, disk, results, chans>>

\* Lines 381, 385, 387, 392: one AddLog of the lines about the version.
ExecVersionLog(t) ==
    /\ Serving
    /\ exec[t].pc \in {"version", "warning"}
    /\ ScanAddLog(t, Head(exec[t].todo))
    /\ exec' = [exec EXCEPT
                  ![t].todo = Tail(@),
                  ![t].pc = IF Tail(exec[t].todo) # <<>> THEN @
                            ELSE IF @ = "version" THEN "versioned"
                            ELSE "built"]
    /\ ScanFrame
    /\ UNCHANGED <<reports, workerPool, disk, results>>

\* Line 396: s.repo.Update(task) after a version answer, its error dropped.
ExecUpdateVersion(t, w) ==
    /\ Serving
    /\ exec[t].pc = "versioned"
    /\ disk' = repoUpdate(disk, cache, t, tasks[t], w)
    /\ results' = repoUpdateResult(results, cache, t, tasks[t], w)
    /\ exec' = [exec EXCEPT ![t].pc = "built"]
    /\ ScanFrame
    /\ UNCHANGED <<reports, workerPool, tasks, chans>>

\* Lines 400-404: the command is built and logged, the subprocess starts.
ExecLogCommand(t) ==
    /\ Serving
    /\ exec[t].pc = "built"
    /\ ScanAddLog(t, "Executing: trivy")
    /\ exec' = [exec EXCEPT ![t].pc = "running"]
    /\ ScanFrame
    /\ UNCHANGED <<reports, workerPool, disk, results>>

OutLine(k) == ToString(k)

\* The logCallback called by the goroutine that scans stdout: one line of
\* subprocess output.
ExecOutput(t, limit) ==
    /\ Serving
    /\ exec[t].pc = "running"
    /\ exec[t].lines < limit
    /\ ScanAddLog(t, OutLine(exec[t].lines + 1))
    /\ exec' = [exec EXCEPT ![t].lines = @ + 1]
    /\ ScanFrame
    /\ UNCHANGED <<reports, workerPool, disk, results>>

ErrLine(k) == "E" \o ToString(k)

\* The logCallback called by the goroutine that scans stderr.
ExecErrOutput(t, limit) ==
    /\ Serving
    /\ exec[t].pc = "running"
    /\ exec[t].elines < limit
    /\ ScanAddLog(t, ErrLine(exec[t].elines + 1))
    /\ exec' = [exec EXCEPT ![t].elines = @ + 1]
    /\ ScanFrame
    /\ UNCHANGED <<reports, workerPool, disk, results>>

\* How ExecuteCommand and the parsing of its output can end: exit status 0
\* with output that parses ("success") or does not ("unparsed"), the
\* deadline exceeded, a non-zero exit or a subprocess that cannot start.
ScanOutcomes == {"success", "unparsed", "timeout", "exit"}

\* A parser that reports output it cannot read as an error.
parseScanResultStrict(format, parsed) ==
    [err |-> format = "json" /\ ~parsed, summary |-> format = "json" /\ parsed]

\* parseScanResult: the summary is looked for "only for JSON format"; one
\* that cannot be parsed is left out ("Don't fail, just skip summary"); the
\* error returned is always nil.
parseScanResult(format, parsed) ==
    [err |-> FALSE, summary |-> format = "json" /\ parsed]

\* The error message executeScan hands to failTask, "" when it goes on to
\* saveReport: lines 409-423.
scanError(format, outcome) ==
    CASE outcome = "timeout" -> "Scan timeout exceeded"
      [] outcome = "exit" -> "Scan failed: exit"
      [] parseScanResult(format, outcome = "success").err ->
             "Failed to parse scan result"
      [] OTHER -> ""

\* The scan gets as far as saveReport: the subprocess exited with status 0
\* and parseScanResult returned no error.
reachesSaveReport(format, outcome) == scanError(format, outcome) = ""

\* failTask: the lines it logs.
FailLines == <<"ERROR", "Scan failed at">>

\* failTask, lines 629-632: the fields it writes, in this order.
FailFields == <<"status", "message", "endTime", "errorOutput">>

\* A failTask that records no end time.
failTaskNoEnd(task, field, errorMsg, endTime) ==
    CASE field = "status" -> [task EXCEPT !.status = ScanStatusFailed]
      [] field = "message" -> [task EXCEPT !.message = "Scan failed"]
      [] field = "endTime" -> task
      [] OTHER -> [task EXCEPT !.errorOutput = errorMsg]

\* failTask, lines 629-632: one of its assignments.  endTime: what
\* time.Now() gave it in line 628.
failTask(task, field, errorMsg, endTime) ==
    CASE field = "status" -> [task EXCEPT !.status = ScanStatusFailed]
      [] field = "message" -> [task EXCEPT !.message = "Scan failed"]
      [] field = "endTime" ->
             [task EXCEPT !.hasEnd = TRUE, !.endTime = endTime]
      [] OTHER -> [task EXCEPT !.errorOutput = errorMsg]

\* ExecuteCommand has returned, its two output goroutines are done, and the
\* scan has failed: failTask is called and reads the clock (line 628).
ExecFailMark(t, outcome) ==
    /\ Serving
    /\ exec[t].pc = "running"
    /\ ~reachesSaveReport(tasks[t].format, outcome)
    /\ exec' = [exec EXCEPT ![t].pc = "failmark", ![t].todo = FailFields,
                            ![t].out = outcome, ![t].at = now]
    /\ ScanFrame
    /\ UNCHANGED <<reports, workerPool, tasks, disk, results, chans>>

\* failTask, lines 629-632: the next assignment, written without a lock.
ExecFailWrite(t) ==
    /\ Serving
    /\ exec[t].pc = "failmark"
    /\ tasks' = [tasks EXCEPT ![t] =
                    failTask(@, Head(exec[t].todo),
                             scanError(tasks[t].format, exec[t].out),
                             exec[t].at)]
    /\ exec' = [exec EXCEPT
                  ![t].todo = IF Tail(@) = <<>> THEN FailLines ELSE Tail(@),
                  ![t].pc = IF Tail(exec[t].todo) = <<>> THEN "failing"
                            ELSE @]
    /\ ScanFrame
    /\ UNCHANGED <<reports, workerPool, disk, results, chans>>

\* saveReport: if ext == "table" { ext = "txt" }, else the format itself.
reportExt(format) == IF format = "table" THEN "txt" ELSE format

\* os.WriteFile on a report file ends in one of three ways: the file is
\* written ("ok"); it fails and no file is there ("none"), as MkdirAll
\* before it can; or it fails after it has created or truncated the file
\* ("cut").
ReportWrites == {"ok", "none", "cut"}

\* saveReport: reports/users/{userID}/{taskID}.{ext} afterwards.
saveReport(rs, t, format, o) ==
    IF o \in {"ok", "cut"} THEN rs \cup {<<t, reportExt(format)>>} ELSE rs

\* ExecuteCommand has returned with status 0 and the result is parsed:
\* saveReport looks the task up (GetByID, line 592) and gives up with "task
\* not found" when it is not in the index.
ExecSaveLookup(t, outcome) ==
    /\ Serving
    /\ exec[t].pc = "running"
    /\ reachesSaveReport(tasks[t].format, outcome)
    /\ exec' = [exec EXCEPT
                  ![t].pc = IF GetByIDFinds(cache, t) THEN "saving"
                            ELSE "saved",
                  ![t].out = outcome]
    /\ ScanFrame
    /\ UNCHANGED <<reports, workerPool, tasks, disk, results, chans>>

\* saveReport, lines 598-621: MkdirAll and WriteFile; an error is logged
\* and "Report saved to" is not.
ExecSaveWrite(t, o) ==
    /\ Serving
    /\ exec[t].pc = "saving"
    /\ reports' = saveReport(reports, t, tasks[t].format, o)
    /\ exec' = [exec EXCEPT
                  ![t].pc = IF o = "ok" THEN "reported" ELSE "saved"]
    /\ ScanFrame
    /\ UNCHANGED <<workerPool, tasks, disk, results, chans>>

\* Line 431: AddLog("Report saved to: ...").
ExecLogReport(t) ==
    /\ Serving
    /\ exec[t].pc = "reported"
    /\ ScanAddLog(t, "Report saved to")
    /\ exec' = [exec EXCEPT ![t].pc = "saved"]
    /\ ScanFrame
    /\ UNCHANGED <<reports, workerPool, disk, results>>

\* The line the success path logs at its end.
DoneLines == <<"Scan completed at">>

\* Lines 436-440: the fields the success path writes, in this order.
DoneFields == <<"status", "message", "endTime", "result", "output">>

\* The Result that parseScanResult built: with a summary, without one, or
\* without one and with an empty Data (the subprocess printed nothing).
scanResult(summary, stdout) ==
    IF summary THEN "summary"
    ELSE IF stdout = <<>> THEN "nodata" ELSE "nosummary"

\* task.Result != nil && task.Result.Data != "".
hasData(task) == task.result \in {"summary", "nosummary"}

\* A success path that closes the listeners of a task it has not marked
\* completed.
completeTaskKeepsStatus(task, field, endTime, summary, stdout) ==
    CASE field = "status" -> task
      [] field = "message" ->
             [task EXCEPT !.message = "Scan completed successfully"]
      [] field = "endTime" ->
             [task EXCEPT !.hasEnd = TRUE, !.endTime = endTime]
      [] field = "result" ->
             [task EXCEPT !.result = scanResult(summary, stdout)]
      [] OTHER -> [task EXCEPT !.output = stdout]

\* Lines 436-440: one of the assignments of the success path.  endTime:
\* what time.Now() gave in line 435; stdout: what the subprocess printed;
\* summary: the result carries one.
completeTask(task, field, endTime, summary, stdout) ==
    CASE field = "status" -> [task EXCEPT !.status = ScanStatusCompleted]
      [] field = "message" ->
             [task EXCEPT !.message = "Scan completed successfully"]
      [] field = "endTime" ->
             [task EXCEPT !.hasEnd = TRUE, !.endTime = endTime]
      [] field = "result" ->
             [task EXCEPT !.result = scanResult(summary, stdout)]
      [] OTHER -> [task EXCEPT !.output = stdout]

\* Line 435: the success path reads the clock.
ExecCompleteMark(t) ==
    /\ Serving
    /\ exec[t].pc = "saved"
    /\ exec' = [exec EXCEPT ![t].pc = "donemark", ![t].todo = DoneFields,
                            ![t].at = now]
    /\ ScanFrame
    /\ UNCHANGED <<reports, workerPool, tasks, disk, results, chans>>

\* Lines 436-440: the next assignment, written without a lock.
ExecCompleteWrite(t) ==
    /\ Serving
    /\ exec[t].pc = "donemark"
    /\ LET parse == parseScanResult(tasks[t].format, exec[t].out = "success")
           stdout == [i \in 1..exec[t].lines |-> OutLine(i)]
       IN tasks' = [tasks EXCEPT ![t] =
                       completeTask(@, Head(exec[t].todo), exec[t].at,
                                    parse.summary, stdout)]
    /\ exec' = [exec EXCEPT
                  ![t].todo = IF Tail(@) = <<>> THEN DoneLines ELSE Tail(@),
                  ![t].pc = IF Tail(exec[t].todo) = <<>> THEN "completing"
                            ELSE @]
    /\ ScanFrame
    /\ UNCHANGED <<reports, workerPool, disk, results, chans>>

\* Lines 441, 633, 634: one AddLog of the last lines of the task.
ExecFinalLog(t) ==
    /\ Serving
    /\ exec[t].pc \in {"completing", "failing"}
    /\ ScanAddLog(t, Head(exec[t].todo))
    /\ exec' = [exec EXCEPT
                  ![t].todo = Tail(@),
                  ![t].pc = IF Tail(exec[t].todo) # <<>> THEN @ ELSE "logged"]
    /\ ScanFrame
    /\ UNCHANGED <<reports, workerPool, disk, results>>

\* Lines 442, 635: task.CloseAllLogListeners().
ExecCloseAll(t) ==
    /\ Serving
    /\ exec[t].pc = "logged"
    /\ chans' = closeAll(chans, tasks[t].LogListeners)
    /\ tasks' = [tasks EXCEPT ![t] = CloseAllLogListeners(@)]
    /\ exec' = [exec EXCEPT ![t].pc = "closed"]
    /\ ScanFrame
    /\ UNCHANGED <<reports, workerPool, disk, results>>

\* Lines 443, 636: the last s.repo.Update(task), its error dropped.
ExecUpdateFinal(t, w) ==
    /\ Serving
    /\ exec[t].pc = "closed"
    /\ disk' = repoUpdate(disk, cache, t, tasks[t], w)
    /\ results' = repoUpdateResult(results, cache, t, tasks[t], w)
    /\ exec' = [exec EXCEPT ![t].pc = "updated"]
    /\ ScanFrame
    /\ UNCHANGED <<reports, workerPool, tasks, chans>>

\* A goroutine that ends without giving its slot back.
releaseNever(pool) == pool

\* <-s.workerPool: one token is taken out of the channel.
release(pool) == pool - 1

\* executeScan returns and the deferred func() { <-s.workerPool }() runs.
ExecRelease(t) ==
    /\ Serving
    /\ exec[t].pc = "updated"
    /\ workerPool' = release(workerPool)
    /\ exec' = [exec EXCEPT ![t] = NoExec]
    /\ tasks' = [tasks EXCEPT ![t] = IF Held(t) THEN @ ELSE NoTask]
    /\ ScanFrame
    /\ UNCHANGED <<reports, disk, results, chans>>

(***************************************************************************)
(* The queueWorker goroutine: processQueue on every tick, in its two       *)
(* steps.  A tick that finds every slot taken changes nothing.             *)
(***************************************************************************)
\* A getNextQueuedTask that hands out the queued task created last.
getNextQueuedTaskNewest ==
    LET queued == {t \in cache : /\ tasks[t].status = ScanStatusQueued
                                 /\ exec[t].pc = "none"}
    IN IF queued = {} THEN Nil
       ELSE CHOOSE t \in queued : \A u \in queued : u <= t

\* getNextQueuedTask: "return nil // Placeholder - will be improved".
getNextQueuedTask == Nil

\* case s.workerPool <- struct{}{}: the tick takes a slot when one is free.
processQueueAcquire ==
    /\ Serving
    /\ workerUp
    /\ sweepTick = 0
    /\ tryAcquire(workerPool, capWorkerPool)
    /\ workerPool' = workerPool + 1
    /\ sweepTick' = 1
    /\ resp' = NoResp
    /\ UNCHANGED <<cfgMaxWorkers, cfgServerURL, cfgRetentionDays, reqs, now,
                   reports, ret, cleaner, phase, workerUp, tasks, cache, disk,
                   results, exec, nextId, chans, viewer>>

\* task := s.getNextQueuedTask(): nil releases the slot, a task is started
\* in a goroutine that keeps it.
processQueueRelease ==
    /\ Serving
    /\ workerUp
    /\ sweepTick = 1
    /\ LET task == getNextQueuedTask
       IN IF task = Nil
          THEN /\ workerPool' = release(workerPool)
               /\ UNCHANGED exec
          ELSE /\ exec' = [exec EXCEPT ![task].pc = "spawned"]
               /\ UNCHANGED workerPool
    /\ sweepTick' = 0
    /\ resp' = NoResp
    /\ UNCHANGED <<cfgMaxWorkers, cfgServerURL, cfgRetentionDays, reqs, now,
                   reports, ret, cleaner, phase, workerUp, tasks, cache, disk,
                   results, nextId, chans, viewer>>

\* queueWorker: case <-s.stopCh: return, taken between two ticks.
queueWorkerExit ==
    /\ phase = "stopping"
    /\ workerUp
    /\ sweepTick = 0
    /\ workerUp' = FALSE
    /\ resp' = NoResp
    /\ UNCHANGED <<cfgMaxWorkers, cfgServerURL, cfgRetentionDays, reqs, now,
                   reports, ret, cleaner, phase, sweepTick, workerPool, tasks,
                   cache, disk, results, exec, nextId, chans, viewer>>

(***************************************************************************)
(* scanServiceImpl.deleteReport, step by step: GetByID under the lock of   *)
(* the repository, then os.Stat and os.Remove of {id}.json and {id}.txt    *)
(* with no lock held.                                                      *)
(***************************************************************************)
\* deleteReport: extensions := []string{"json", "txt"}.
DeletableExts == <<"json", "txt">>

\* Lines 832-838: GetByID; "task not found" ends the call for an id that
\* is not in the index.
deleteReportLookup(c, t) ==
    IF GetByIDFinds(c, t) THEN [pc |-> "stat", exts |-> DeletableExts]
    ELSE NoReport

\* The loop goes on to the next extension, or the call returns.
deleteReportNext(dr) ==
    IF Tail(dr.exts) = <<>> THEN NoReport
    ELSE [pc |-> "stat", exts |-> Tail(dr.exts)]

\* Lines 848-860: the call after its next file-system call on the files rs.
\* ok: os.Stat answers (the file, or "not exist"), os.Remove finds the file
\* and removes it; anything else is an error that ends the call.
deleteReportStep(dr, rs, t, ok) ==
    LET file == <<t, Head(dr.exts)>>
    IN CASE ~ok -> NoReport
         [] dr.pc = "stat" ->
                IF file \in rs THEN [dr EXCEPT !.pc = "remove"]
                ELSE deleteReportNext(dr)
         [] OTHER -> IF file \in rs THEN deleteReportNext(dr) ELSE NoReport

\* Lines 848-860: the report files after that call.
deleteReportFiles(dr, rs, t, ok) ==
    IF ok /\ dr.pc = "remove" THEN rs \ {<<t, Head(dr.exts)>>} ELSE rs

(***************************************************************************)
(* ScanHandler.DeleteScan and scanServiceImpl.DeleteTask: GetTask, then    *)
(* deleteReport, then repo.Delete.  Requests for the same id can overlap.  *)
(***************************************************************************)
\* os.RemoveAll(taskDir) "removes everything it can but returns the first
\* error it encounters".  It ends in one of five ways: the directory is gone
\* ("ok"), or it returns an error after it has removed nothing
\* ("untouched"), metadata.json ("meta"), result.json ("result") or both
\* files but not the directory ("files").
RemoveOutcomes == {"ok", "untouched", "meta", "result", "files"}

\* RemoveAll: metadata.json of every task afterwards.
removeMetadata(d, t, w) ==
    IF w \in {"ok", "meta", "files"} THEN [d EXCEPT ![t] = NoFile] ELSE d

\* RemoveAll: result.json of every task afterwards.
removeResult(rf, t, w) ==
    IF w \in {"ok", "result", "files"} THEN [rf EXCEPT ![t] = NoResult]
    ELSE rf

\* A Delete that never drops the cache entry.
repoDeletesNothing(c, t, w) == FALSE

\* Delete of the repository, lines 795-800: delete(r.cache, id) is reached
\* only when os.RemoveAll returned no error.
repoDeletes(c, t, w) == t \in c /\ w = "ok"

\* The DeleteScan requests under way.
Deleting == {n \in 1..MaxDeleteCalls : reqs.del[n].id # Nil}

\* DeleteScan, lines 213-218: GetTask answers 404 for an id that is not in
\* the index; else DeleteTask is called.  The request takes the first free
\* slot n.
DeleteScan(n, t) ==
    /\ Serving
    /\ n \notin Deleting
    /\ \A m \in 1..(n - 1) : m \in Deleting
    /\ GetByIDFinds(cache, t)
    /\ reqs' = [reqs EXCEPT !.del[n] = [id |-> t, pc |-> "got",
                                        exts |-> <<>>]]
    /\ resp' = NoResp
    /\ UNCHANGED <<cfgMaxWorkers, cfgServerURL, cfgRetentionDays, now,
                   reports, ret, cleaner, phase, workerUp, sweepTick,
                   workerPool, tasks, cache, disk, results, exec, nextId,
                   chans, viewer>>

\* DeleteTask, line 922: deleteReport is called and looks the task up.
DeleteTaskReport(n) ==
    /\ Serving
    /\ reqs.del[n].pc = "got"
    /\ LET dr == deleteReportLookup(cache, reqs.del[n].id)
       IN reqs' = [reqs EXCEPT !.del[n].pc = dr.pc, !.del[n].exts = dr.exts]
    /\ resp' = NoResp
    /\ UNCHANGED <<cfgMaxWorkers, cfgServerURL, cfgRetentionDays, now,
                   reports, ret, cleaner, phase, workerUp, sweepTick,
                   workerPool, tasks, cache, disk, results, exec, nextId,
                   chans, viewer>>

\* deleteReport of that call: its next os.Stat or os.Remove.  Its error is
\* logged and dropped (lines 922-925).
DeleteTaskRemoval(n, ok) ==
    /\ Serving
    /\ reqs.del[n].pc \in {"stat", "remove"}
    /\ LET d == reqs.del[n]
           dr == deleteReportStep(d, reports, d.id, ok)
       IN /\ reports' = deleteReportFiles(d, reports, d.id, ok)
          /\ reqs' = [reqs EXCEPT !.del[n].pc = dr.pc,
                                  !.del[n].exts = dr.exts]
    /\ resp' = NoResp
    /\ UNCHANGED <<cfgMaxWorkers, cfgServerURL, cfgRetentionDays, now,
                   ret, cleaner, phase, workerUp, sweepTick, workerPool,
                   tasks, cache, disk, results, exec, nextId, chans, viewer>>

\* The index and the files after repo.Delete(t); w: how os.RemoveAll ends.
\* "task not found" keeps what is there; "failed to delete task directory"
\* keeps the cache entry and the files that RemoveAll has not removed.
repoDeleteApply(t, w) ==
    IF t \notin cache
    THEN UNCHANGED <<cache, disk, results, tasks>>
    ELSE /\ disk' = removeMetadata(disk, t, w)
         /\ results' = removeResult(results, t, w)
         /\ IF repoDeletes(cache, t, w)
            THEN /\ cache' = cache \ {t}
                 /\ tasks' = [tasks EXCEPT ![t] =
                                 IF Referenced(t) THEN @ ELSE NoTask]
            ELSE UNCHANGED <<cache, tasks>>

\* Lines 928-933: repo.Delete, and the request returns.
DeleteTaskRepo(n, w) ==
    /\ Serving
    /\ reqs.del[n].pc = "done"
    /\ repoDeleteApply(reqs.del[n].id, w)
    /\ reqs' = [reqs EXCEPT !.del[n] = NoDelete]
    /\ resp' = NoResp
    /\ UNCHANGED <<cfgMaxWorkers, cfgServerURL, cfgRetentionDays, now,
                   reports, ret, cleaner, phase, workerUp, sweepTick,
                   workerPool, exec, nextId, chans, viewer>>

(***************************************************************************)
(* DELETE /api/v1/scan/:id/cancel: Router.registerRoutes registers no such *)
(* route and ScanService has no cancel method, so gin answers 404.         *)
(***************************************************************************)
CancelScan(t) ==
    /\ Serving
    /\ resp' = [op |-> "cancel", id |-> t, code |-> 404]
    /\ UNCHANGED <<cfgMaxWorkers, cfgServerURL, cfgRetentionDays, reqs, now,
                   reports, ret, cleaner, phase, workerUp, sweepTick,
                   workerPool, tasks, cache, disk, results, exec, nextId,
                   chans, viewer>>

(***************************************************************************)
(* Process lifecycle: Stop (deferred in runServer), exit, crash, restart.  *)
(***************************************************************************)
\* Stop: close(s.stopCh); the caller then blocks in s.wg.Wait().
Stop ==
    /\ phase = "up"
    /\ phase' = "stopping"
    /\ resp' = NoResp
    /\ UNCHANGED <<cfgMaxWorkers, cfgServerURL, cfgRetentionDays, reqs, now,
                   reports, ret, cleaner, workerUp, sweepTick, workerPool,
                   tasks, cache, disk, results, exec, nextId, chans, viewer>>

\* The tasks whose executeScan goroutine is alive (it holds a worker slot).
InFlight == {t \in Ids : exec[t].pc \in ScanPcs}

\* markInterruptedTasksAsFailed: what it does to one running task.
InterruptLines == <<"ERROR: Scan interrupted by server restart",
                    "Task marked as failed at">>

\* A recovery that forgets to change the status.
interruptedKeepsStatus(task) ==
    CloseAllLogListeners(AddLogs(
        [task EXCEPT !.message = "Scan interrupted by server restart",
                     !.hasEnd = TRUE, !.endTime = now],
        InterruptLines))

interrupted(task) ==
    CloseAllLogListeners(AddLogs(
        [task EXCEPT !.status = ScanStatusFailed,
                     !.message = "Scan interrupted by server restart",
                     !.hasEnd = TRUE, !.endTime = now,
                     !.errorOutput = "Server was restarted while this scan was in progress"],
        InterruptLines))

\* loadAllTasks: a metadata.json that loadTaskFromFile cannot read or parse
\* is passed over.
Loadable(file) == file # NoFile /\ file # Unparsable

\* loadAllTasks: every loadable metadata.json becomes a cache entry.
loadAllTasks(d, rf) ==
    [t \in Ids |-> IF Loadable(d[t]) THEN loadTaskFromFile(d[t], rf[t])
                   ELSE NoTask]

\* markInterruptedTasksAsFailed over the loaded cache.
markInterruptedTasksAsFailed(loaded) ==
    [t \in Ids |-> IF loaded[t].status = ScanStatusRunning
                   THEN interrupted(loaded[t]) ELSE loaded[t]]

\* runServer in a new process: NewFileBasedScanRepository, NewScanService and
\* Start(), which recovers before it launches the queueWorker.  Nothing of
\* the previous process survives but the files.  walk: MkdirAll and the
\* filepath.Walk of loadAllTasks succeed; when they do not, the constructor
\* fails ("failed to load existing tasks") and runServer returns: the
\* process is down.  wo: how the Update write of each recovered task ends.
Start(walk) ==
    /\ IF walk
       THEN /\ LET loaded == loadAllTasks(disk, results)
                   found == {t \in Ids :
                                loaded[t].status = ScanStatusRunning}
                   recovered == markInterruptedTasksAsFailed(loaded)
               IN /\ cache' = {t \in Ids : Loadable(disk[t])}
                  /\ tasks' = recovered
                  /\ \E wo \in [found -> WriteOutcomes] :
                        /\ disk' = [t \in Ids |->
                                      IF t \in found
                                      THEN saveTaskToFile(disk, t,
                                               recovered[t], wo[t])[t]
                                      ELSE disk[t]]
                        /\ results' = [t \in Ids |->
                                         IF t \in found
                                         THEN saveResultFile(results, t,
                                                  recovered[t], wo[t])[t]
                                         ELSE results[t]]
            /\ phase' = "up"
            /\ workerUp' = TRUE
            /\ cleaner' = cleanerAtStart(cfgRetentionDays)
       ELSE /\ cache' = {}
            /\ tasks' = [t \in Ids |-> NoTask]
            /\ phase' = "down"
            /\ workerUp' = FALSE
            /\ cleaner' = "none"
            /\ UNCHANGED <<disk, results>>
    /\ sweepTick' = 0
    /\ workerPool' = 0
    /\ exec' = [t \in Ids |-> NoExec]
    /\ resp' = NoResp
    /\ chans' = [v \in Viewers |-> NoChan]
    /\ viewer' = [v \in Viewers |-> NoViewer]
    /\ ret' = NoRet
    /\ reqs' = NoReqs
    /\ UNCHANGED <<cfgMaxWorkers, cfgServerURL, cfgRetentionDays, now,
                   reports, nextId>>

\* s.wg.Wait() returns: the worker and every executeScan goroutine are done;
\* runServer returns, the process exits and the service is started again.
StopReturn(walk) ==
    /\ phase = "stopping"
    /\ ~workerUp
    /\ cleaner = "none"
    /\ InFlight = {}
    /\ Start(walk)

\* The process is killed (or the machine fails) at any moment, or it has
\* not come up, and the service is started again.
Crash(walk) ==
    /\ phase \in {"up", "stopping", "down"}
    /\ Start(walk)

(***************************************************************************)
(* The scheduler and the store.                                            *)
(***************************************************************************)
Outcomes == {"success", "timeout", "exit"}

\* What the version request can bring: <<net, vdb, jdb>>.
Answers == BOOLEAN \X BOOLEAN \X BOOLEAN

\* The request fails, or is answered without any database named.
PlainAnswers == BOOLEAN \X {FALSE} \X {FALSE}

\* The steps of executeScan(t) up to the start of the subprocess, but for
\* the Update that follows a version answer.  W: how the writes can end;
\* A: what the version request can bring.
ScanBeginsOf(t, W, A) ==
    \/ ExecMark(t)
    \/ ExecLogStart(t)
    \/ \E w \in W : ExecUpdateRunning(t, w)
    \/ \E a \in A : ExecVersion(t, a[1], a[2], a[3])
    \/ ExecVersionLog(t)
    \/ ExecLogCommand(t)

\* The steps of the success path of executeScan(t), from the return of
\* ExecuteCommand to the fields of the completed task.  O: how the
\* subprocess can end; R: how saveReport's write can end.
ScanSavesOf(t, O, R) ==
    \/ \E o \in O : ExecSaveLookup(t, o)
    \/ \E o \in R : ExecSaveWrite(t, o)
    \/ ExecLogReport(t)
    \/ ExecCompleteMark(t)
    \/ ExecCompleteWrite(t)

\* The last steps of executeScan(t), on its success path and in failTask.
\* W: how the last Update can end.
ScanClosesOf(t, W) ==
    \/ ExecFinalLog(t)
    \/ ExecCloseAll(t)
    \/ \E w \in W : ExecUpdateFinal(t, w)
    \/ ExecRelease(t)

\* The steps of executeScan(t) from the return of ExecuteCommand on.
ScanEndsOf(t, O, R, W) ==
    \/ \E o \in O : ExecFailMark(t, o)
    \/ ExecFailWrite(t)
    \/ ScanSavesOf(t, O, R)
    \/ ScanClosesOf(t, W)

ScanBegins(W, A) == \E t \in Ids : ScanBeginsOf(t, W, A)

ScanEnds(O, R, W) == \E t \in Ids : ScanEndsOf(t, O, R, W)

\* The Update after a version answer (a Trivy server is configured).
ScanVersioned(W) == \E t \in Ids, w \in W : ExecUpdateVersion(t, w)

\* A scan from its first step to its last, every write succeeding, without
\* output.
QuietScans(O, R) ==
    \/ ScanBegins({"ok"}, PlainAnswers)
    \/ ScanEnds(O, R, {"ok"})

\* DeleteScan requests, up to calls of them at a time, for any task in the
\* index.  O: how the calls of deleteReport on the file system can end; W:
\* how os.RemoveAll can end.
Deletes(calls, O, W) ==
    \/ \E n \in 1..calls, t \in Ids : DeleteScan(n, t)
    \/ \E n \in 1..calls : DeleteTaskReport(n)
    \/ \E n \in 1..calls, ok \in O : DeleteTaskRemoval(n, ok)
    \/ \E n \in 1..calls, w \in W : DeleteTaskRepo(n, w)

\* The whole scheduler: submissions, scans that succeed or exit with an
\* error, with every outcome of their writes, deletions by request and
\* restarts.  The faults of a deletion are those of the runs of the API.
Next ==
    \/ \E w \in WriteOutcomes :
          nextId <= SpecTasks /\ CreateScanTaskCreate(SharedUser, DefaultFormat, w)
    \/ \E t \in Ids : CreateScanTaskSelect(t)
    \/ ScanBegins(WriteOutcomes, PlainAnswers)
    \/ ScanEnds({"success", "exit"}, {"ok", "none"}, WriteOutcomes)
    \/ processQueueAcquire
    \/ processQueueRelease
    \/ queueWorkerExit
    \/ Deletes(1, {TRUE}, {"ok"})
    \/ Stop
    \/ \E walk \in BOOLEAN : StopReturn(walk)
    \/ \E walk \in BOOLEAN : Crash(walk)

Spec == Init /\ [][Next]_vars

(***************************************************************************)
(* ScanHandler.StreamLogs: one SSE request per viewer.                     *)
(***************************************************************************)
\* An AddLogListener that registers nothing on a task that has ended.
AddLogListenerIfLive(task, c) ==
    IF task.status \in {ScanStatusCompleted, ScanStatusFailed} THEN task
    ELSE [task EXCEPT !.LogListeners = Append(@, c)]

\* AddLogListener: a fresh channel of capacity 100, appended to the list.
AddLogListener(task, c) == [task EXCEPT !.LogListeners = Append(@, c)]

\* A RemoveLogListener that closes the channel and leaves it in the list.
RemoveLogListenerKeeps(task, c) == task

\* RemoveLogListener: drop the channel from the list when it is there.
RemoveLogListener(task, c) ==
    [task EXCEPT !.LogListeners = SelectSeq(@, LAMBDA x : x # c)]

\* RemoveLogListener: close(ch) only when the channel was in the list.
removeClose(chs, listeners, c) ==
    IF \E i \in 1..Len(listeners) : listeners[i] = c
    THEN [chs EXCEPT ![c].open = FALSE] ELSE chs

\* GetLogLines: a copy of the lines.
GetLogLines(task) == task.LogLines

\* h.scanService.GetTask(taskID): the handler now holds the task pointer.
StreamGetTask(v, t) ==
    /\ Serving
    /\ viewer[v].pc = "idle"
    /\ t \in cache
    /\ viewer' = [viewer EXCEPT ![v] = [pc |-> "got", task |-> t,
                                        out |-> <<>>]]
    /\ resp' = NoResp
    /\ UNCHANGED <<cfgMaxWorkers, cfgServerURL, cfgRetentionDays, reqs, now,
                   reports, ret, cleaner, phase, workerUp, sweepTick,
                   workerPool, tasks, cache, disk, results, exec, nextId,
                   chans>>

\* logChan := task.AddLogListener()
StreamSubscribe(v) ==
    /\ viewer[v].pc = "got"
    /\ LET t == viewer[v].task
       IN tasks' = [tasks EXCEPT ![t] = AddLogListener(@, v)]
    /\ chans' = [chans EXCEPT ![v] = [open |-> TRUE, buf |-> <<>>]]
    /\ viewer' = [viewer EXCEPT ![v].pc = "subscribed"]
    /\ resp' = NoResp
    /\ UNCHANGED <<cfgMaxWorkers, cfgServerURL, cfgRetentionDays, reqs, now,
                   reports, ret, cleaner, phase, workerUp, sweepTick,
                   workerPool, cache, disk, results, exec, nextId>>

\* existingLogs := task.GetLogLines(), each sent as an SSE message.
StreamReplay(v) ==
    /\ viewer[v].pc = "subscribed"
    /\ viewer' = [viewer EXCEPT
                    ![v].out = @ \o GetLogLines(tasks[viewer[v].task]),
                    ![v].pc = "streaming"]
    /\ resp' = NoResp
    /\ UNCHANGED <<cfgMaxWorkers, cfgServerURL, cfgRetentionDays, reqs, now,
                   reports, ret, cleaner, phase, workerUp, sweepTick,
                   workerPool, tasks, cache, disk, results, exec, nextId,
                   chans>>

\* case log, ok := <-logChan with ok: the line is sent to the client.
StreamRecv(v) ==
    /\ viewer[v].pc = "streaming"
    /\ chans[v].buf # <<>>
    /\ viewer' = [viewer EXCEPT ![v].out = Append(@, Head(chans[v].buf))]
    /\ chans' = [chans EXCEPT ![v].buf = Tail(@)]
    /\ resp' = NoResp
    /\ UNCHANGED <<cfgMaxWorkers, cfgServerURL, cfgRetentionDays, reqs, now,
                   reports, ret, cleaner, phase, workerUp, sweepTick,
                   workerPool, tasks, cache, disk, results, exec, nextId>>

\* The deferred task.RemoveLogListener(logChan) when the handler returns.
StreamReturn(v, pc) ==
    /\ LET t == viewer[v].task
       IN /\ chans' = removeClose(chans, tasks[t].LogListeners, v)
          /\ tasks' = [tasks EXCEPT ![t] =
                         IF \/ t \in cache
                            \/ exec[t].pc # "none"
                            \/ \E x \in Viewers \ {v} :
                                  /\ viewer[x].task = t
                                  /\ viewer[x].pc \notin DonePcs
                            \/ \E r \in reqs.rep : r.id = t
                            \/ InSeq(t, reqs.list.items)
                         THEN RemoveLogListener(@, v) ELSE NoTask]
    /\ viewer' = [viewer EXCEPT ![v].pc = pc]
    /\ resp' = NoResp
    /\ UNCHANGED <<cfgMaxWorkers, cfgServerURL, cfgRetentionDays, reqs, now,
                   reports, ret, cleaner, phase, workerUp, sweepTick,
                   workerPool, cache, disk, results, exec, nextId>>

\* case log, ok := <-logChan with !ok: channel closed and drained.
StreamClosed(v) ==
    /\ viewer[v].pc = "streaming"
    /\ chans[v].buf = <<>>
    /\ ~chans[v].open
    /\ StreamReturn(v, "closed")

\* case <-clientGone: the client disconnected.
StreamDisconnect(v) ==
    /\ viewer[v].pc = "streaming"
    /\ StreamReturn(v, "gone")

(***************************************************************************)
(* Log streaming: tasks that run to their end while viewers follow them,   *)
(* with a Trivy server configured.                                         *)
(***************************************************************************)
ServerURL == "http://trivy-server:4954"

\* How the subprocess ends in the runs that follow the log: with a report,
\* or with a failure.
StreamOutcomes == {"success", "exit"}

StreamInit ==
    /\ cfgMaxWorkers = MaxWorkersCfg
    /\ cfgServerURL = ServerURL
    /\ cfgRetentionDays = 0
    /\ cleaner = cleanerAtStart(cfgRetentionDays)
    /\ Fresh

\* The requests are numbered in the order in which they arrive.
InTurn(v) == \A x \in Viewers : x < v => viewer[x].pc # "idle"

\* A scan from its first step to its last, every write succeeding, with a
\* subprocess that prints up to limit lines.
Producer(limit) ==
    \/ ScanBegins({"ok"}, PlainAnswers)
    \/ ScanVersioned({"ok"})
    \/ \E t \in Ids : ExecOutput(t, limit)
    \/ ScanEnds(StreamOutcomes, {"ok"}, {"ok"})

Submit(limit) ==
    \/ nextId <= limit /\ CreateScanTaskCreate(SharedUser, DefaultFormat, "ok")
    \/ \E t \in Ids : CreateScanTaskSelect(t)

\* One viewer follows scans that end in either way.
SoloNext ==
    \/ Submit(StreamTasks)
    \/ Producer(StreamOutLines)
    \/ \E t \in Ids : StreamGetTask(1, t)
    \/ StreamSubscribe(1)
    \/ StreamReplay(1)
    \/ StreamRecv(1)
    \/ StreamClosed(1)
    \/ StreamDisconnect(1)

SoloSpec == StreamInit /\ [][SoloNext]_vars

\* The same with the process killed at any moment and started again, the
\* walk of the directory succeeding.
EndingsNext ==
    \/ SoloNext
    \/ Crash(TRUE)

EndingsSpec == StreamInit /\ [][EndingsNext]_vars

\* Several viewers follow a scan that succeeds without output.
StreamNext ==
    \/ Submit(StreamTasks)
    \/ ScanBegins({"ok"}, {<<TRUE, FALSE, FALSE>>})
    \/ ScanVersioned({"ok"})
    \/ \E t \in Ids : ScanSavesOf(t, {"success"}, {"ok"})
    \/ \E t \in Ids : ScanClosesOf(t, {"ok"})
    \/ \E v \in Viewers, t \in Ids : InTurn(v) /\ StreamGetTask(v, t)
    \/ \E v \in Viewers : StreamSubscribe(v)
    \/ \E v \in Viewers : StreamReplay(v)
    \/ \E v \in Viewers : StreamRecv(v)
    \/ \E v \in Viewers : StreamClosed(v)
    \/ \E v \in Viewers : StreamDisconnect(v)

StreamSpec == StreamInit /\ [][StreamNext]_vars

(***************************************************************************)
(* Listener overflow: a subprocess that prints more lines than a listener  *)
(* channel holds, followed by viewers whose clients have stalled (the      *)
(* handlers never get to read their channels).                             *)
(***************************************************************************)
OverflowNext ==
    \/ Submit(StreamTasks)
    \/ Producer(OverflowOutLines)
    \/ \E v \in Viewers, t \in Ids :
          /\ InTurn(v)
          /\ exec[t].pc = "running"
          /\ exec[t].lines <= OverflowConnectBy
          /\ StreamGetTask(v, t)
    \/ \E v \in Viewers :
          /\ viewer[v].task \in Ids
          /\ exec[viewer[v].task].lines <= OverflowConnectBy
          /\ StreamSubscribe(v)

OverflowSpec == StreamInit /\ [][OverflowNext]_vars

(***************************************************************************)
(* FileBasedScanRepository called directly, as its tests and the service   *)
(* do: every method is one action under the repository lock, and what it   *)
(* returns is kept in ret.                                                 *)
(***************************************************************************)
Owners == {SharedUser, "alice"}
Statuses == {ScanStatusQueued, ScanStatusRunning, ScanStatusCompleted,
             ScanStatusFailed}
Terminal == {ScanStatusCompleted, ScanStatusFailed}

\* A task object built by a caller of the repository.
CallerTask(o, st, e) ==
    [NewScanTask EXCEPT !.owner = o, !.status = st, !.hasEnd = e,
                        !.endTime = IF e THEN now ELSE 0,
                        !.result = IF st = ScanStatusCompleted
                                   THEN "summary" ELSE "none"]

\* A Create that overwrites what is there.
repoCreateErrOverwrite(c, t, e) == e

\* Create: already-exists, else the error of saveTaskToFile (e), else
\* r.cache[task.ID] = task.
repoCreateErr(c, t, e) == IF t \in c THEN "exists" ELSE e

repoCreate(t, task, w) ==
    /\ Serving
    /\ LET err == repoCreateErr(cache, t, saveErr(task, w))
       IN /\ ret' = [op |-> "create", id |-> t, err |-> err]
          /\ disk' = IF err = "exists" THEN disk
                     ELSE saveTaskToFile(disk, t, task, w)
          /\ results' = IF err = "exists" THEN results
                        ELSE saveResultFile(results, t, task, w)
          /\ IF err = ""
             THEN /\ tasks' = [tasks EXCEPT ![t] = task]
                  /\ cache' = cache \cup {t}
             ELSE UNCHANGED <<tasks, cache>>
    /\ UNCHANGED <<cfgMaxWorkers, cfgServerURL, cfgRetentionDays, reqs, now,
                   reports, cleaner, phase, workerUp, sweepTick, workerPool,
                   exec, nextId, resp, chans, viewer>>

\* An Update that accepts any id.
repoUpdateErrAnyId(c, t, e) == e

\* Update: not-found, else the error of saveTaskToFile (e), else
\* r.cache[task.ID] = task.
repoUpdateErr(c, t, e) == IF t \notin c THEN "notfound" ELSE e

\* shared: the caller changed the fields of the cached object itself (the
\* pointer GetByID or Create gave it) before the call, as executeScan does;
\* otherwise it passes an object of its own.
repoUpdateCall(t, st, e, shared, w) ==
    /\ Serving
    /\ LET old == IF t \in cache THEN tasks[t] ELSE CallerTask(SharedUser, st, e)
           task == [old EXCEPT !.status = st, !.hasEnd = e,
                               !.endTime = IF e THEN now ELSE 0,
                               !.result = IF st = ScanStatusCompleted
                                          THEN "summary" ELSE "none"]
           err == repoUpdateErr(cache, t, saveErr(task, w))
       IN /\ ret' = [op |-> "update", id |-> t, err |-> err]
          /\ disk' = repoUpdate(disk, cache, t, task, w)
          /\ results' = repoUpdateResult(results, cache, t, task, w)
          /\ tasks' = IF t \in cache /\ (shared \/ err = "")
                      THEN [tasks EXCEPT ![t] = task] ELSE tasks
    /\ UNCHANGED <<cfgMaxWorkers, cfgServerURL, cfgRetentionDays, reqs, now,
                   reports, cleaner, phase, workerUp, sweepTick, workerPool,
                   cache, exec, nextId, resp, chans, viewer>>

\* Delete: not-found, else os.RemoveAll(taskDir), else delete(r.cache, id).
repoDeleteErr(c, t, w) ==
    IF t \notin c THEN "notfound" ELSE IF w # "ok" THEN "remove" ELSE ""

repoDelete(t, w) ==
    /\ Serving
    /\ ret' = [op |-> "delete", id |-> t, err |-> repoDeleteErr(cache, t, w)]
    /\ repoDeleteApply(t, w)
    /\ UNCHANGED <<cfgMaxWorkers, cfgServerURL, cfgRetentionDays, reqs, now,
                   reports, cleaner, phase, workerUp, sweepTick, workerPool,
                   exec, nextId, resp, chans, viewer>>

\* A lookup that finds nothing.
GetByIDNothing(c, ts, t) == NoTask

\* GetByID: the cached pointer, or (nil, nil); NoTask stands for the nil
\* pointer.
GetByID(c, ts, t) == IF t \in c THEN ts[t] ELSE NoTask

\* What every query leaves alone.
QueryFrame ==
    UNCHANGED <<cfgMaxWorkers, cfgServerURL, cfgRetentionDays, reqs, now,
                reports, cleaner, phase, workerUp, sweepTick, workerPool,
                tasks, cache, disk, results, exec, nextId, resp, chans,
                viewer>>

repoGetByID(t) ==
    /\ Serving
    /\ ret' = [op |-> "get", id |-> t, err |-> "",
               task |-> GetByID(cache, tasks, t)]
    /\ QueryFrame

\* The orders a sort can leave the ids of S in: key never decreases (asc)
\* or never increases (desc); ids with equal keys come in any order. key
\* maps each id of S to its sort key.
SortedSeqs(S, key, desc) ==
    {q \in [1..Cardinality(S) -> S] :
        /\ \A i, j \in 1..Cardinality(S) : i # j => q[i] # q[j]
        /\ \A i, j \in 1..Cardinality(S) :
              i < j => IF desc THEN key[q[i]] >= key[q[j]]
                               ELSE key[q[i]] <= key[q[j]]}

\* A queue that holds the queued tasks of every owner.
GetQueuedTasksAllOwners(c, ts, o) ==
    LET S == {t \in c : ts[t].status = ScanStatusQueued}
        key == [t \in S |-> ts[t].startTime]
    IN SortedSeqs(S, key, FALSE)

\* GetQueuedTasks(userID): the owner's queued tasks by start time.
GetQueuedTasks(c, ts, o) ==
    LET S == {t \in c : ts[t].owner = o /\ ts[t].status = ScanStatusQueued}
        key == [t \in S |-> ts[t].startTime]
    IN SortedSeqs(S, key, FALSE)

repoGetQueuedTasks(o) ==
    /\ Serving
    /\ \E q \in GetQueuedTasks(cache, tasks, o) :
          ret' = [op |-> "queued", owner |-> o, err |-> "", items |-> q]
    /\ QueryFrame

\* GetAllRunningTasks: every running task, in map order.
GetAllRunningTasks(c, ts) == {t \in c : ts[t].status = ScanStatusRunning}

repoGetAllRunningTasks ==
    /\ Serving
    /\ ret' = [op |-> "running", err |-> "",
               ids |-> GetAllRunningTasks(cache, tasks)]
    /\ QueryFrame

\* GetAllOldTasks: taskTime is EndTime when set, else StartTime.
taskTime(task) == IF task.hasEnd THEN task.endTime ELSE task.startTime

\* A selection of stale tasks that takes the cutoff day itself as stale.
GetAllOldTasksInclusive(c, ts, cutoffTime) ==
    {t \in c : /\ ts[t].status \in Terminal
               /\ taskTime(ts[t]) <= cutoffTime}

GetAllOldTasks(c, ts, cutoffTime) ==
    {t \in c : /\ ts[t].status \in Terminal
               /\ taskTime(ts[t]) < cutoffTime}

repoGetAllOldTasks(cutoffTime) ==
    /\ Serving
    /\ ret' = [op |-> "old", cutoff |-> cutoffTime, err |-> "",
               ids |-> GetAllOldTasks(cache, tasks, cutoffTime)]
    /\ QueryFrame

\* The wall clock moves on by a day, up to a last day.
Tick(last) ==
    /\ now < last
    /\ now' = now + 1
    /\ UNCHANGED <<cfgMaxWorkers, cfgServerURL, cfgRetentionDays, reqs,
                   reports, ret, cleaner, phase, workerUp, sweepTick,
                   workerPool, tasks, cache, disk, results, exec, nextId, resp,
                   chans, viewer>>

\* Go's int: two's complement of IntBits bits.
MaxInt == 2^(IntBits - 1) - 1

wrap(x) == ((x + 2^(IntBits - 1)) % 2^IntBits) - 2^(IntBits - 1)

\* sortTasks: the key of a task; a nil EndTime sorts after every time.
sortKey(task, sortBy) ==
    IF sortBy = "endTime"
    THEN IF task.hasEnd THEN task.endTime ELSE MaxNow + 1
    ELSE task.startTime

\* A filter that forgets the owner.
listFilterAnyOwner(c, ts, userID, status) ==
    {t \in c : status # "" => ts[t].status = status}

\* List: the loop that keeps the user's tasks of the wanted status.
listFilter(c, ts, userID, status) ==
    {t \in c : /\ ts[t].owner = userID
               /\ status # "" => ts[t].status = status}

\* List: filter by user and status, count, sort, cut the page out.  The
\* results it can give: map iteration and sort.Slice leave tasks with equal
\* keys in any order.  A slice expression out of range panics.
List(c, ts, userID, status, page, pageSize, sortBy, sortOrder) ==
    LET filtered == listFilter(c, ts, userID, status)
        total == Cardinality(filtered)
        key == [t \in filtered |-> sortKey(ts[t], sortBy)]
        start == wrap((page - 1) * pageSize)
        end0 == wrap(start + pageSize)
        end == IF end0 > total THEN total ELSE end0
    IN IF start >= total
       THEN {[items |-> <<>>, total |-> total, err |-> ""]}
       ELSE IF start < 0 \/ end < start
       THEN {[items |-> <<>>, total |-> 0, err |-> "panic"]}
       ELSE {[items |-> SubSeq(q, start + 1, end), total |-> total,
              err |-> ""] :
                q \in SortedSeqs(filtered, key, sortOrder = "desc")}

repoList(userID, status, page, pageSize, sortBy, sortOrder) ==
    /\ Serving
    /\ \E r \in List(cache, tasks, userID, status, page, pageSize, sortBy,
                     sortOrder) :
          ret' = [op |-> "list", owner |-> userID, status |-> status,
                  page |-> page, pageSize |-> pageSize, sortBy |-> sortBy,
                  sortOrder |-> sortOrder, items |-> r.items,
                  total |-> r.total, err |-> r.err]
    /\ QueryFrame

\* The callers of the repository: they create tasks of one user, queued
\* or completed, and update them to any later status.
StoreIds == 1..StoreTasks

\* One configuration: the repository does not read it.
StoreInit ==
    /\ cfgMaxWorkers = MaxWorkersCfg
    /\ cfgServerURL = ""
    /\ cfgRetentionDays = 0
    /\ cleaner = cleanerAtStart(cfgRetentionDays)
    /\ Fresh

StoreNext ==
    \/ \E t \in StoreIds, o \in {SharedUser},
          st \in {ScanStatusQueued, ScanStatusCompleted},
          w \in WriteOutcomes :
          repoCreate(t, CallerTask(o, st, st \in Terminal), w)
    \/ \E t \in StoreIds, st \in Statuses \ {ScanStatusQueued},
          shared \in BOOLEAN,
          w \in WriteOutcomes :
          repoUpdateCall(t, st, st \in Terminal, shared, w)
    \/ \E t \in StoreIds, w \in RemoveOutcomes : repoDelete(t, w)
    \/ \E t \in StoreIds : repoGetByID(t)
    \/ \E o \in Owners : repoGetQueuedTasks(o)
    \/ repoGetAllRunningTasks
    \/ \E cutoff \in 0..MaxNow : repoGetAllOldTasks(cutoff)

StoreSpec == StoreInit /\ [][StoreNext]_vars

(***************************************************************************)
(* ScanService.ListTasks: the page of the repository with the queue        *)
(* positions filled in, over tasks that two users submit one after the     *)
(* other (no two submissions read the same time.Now()).                    *)
(***************************************************************************)
\* summary.QueuePosition = i + 1 for the task at index i of the queue, and
\* the zero value for a task that is not in the queue.
QueuePosition(q, t) ==
    IF InSeq(t, q) THEN CHOOSE i \in 1..Len(q) : q[i] = t ELSE 0

\* What every step of ListTasks leaves alone.
ListFrame ==
    /\ resp' = NoResp
    /\ UNCHANGED <<cfgMaxWorkers, cfgServerURL, cfgRetentionDays, now,
                   reports, cleaner, phase, workerUp, sweepTick, workerPool,
                   cache, disk, results, exec, nextId, chans, viewer>>

\* Lines 656-673: the defaults of the request, then repo.List with the
\* page, the page size, the sort field and the sort order that result.  A
\* slice expression out of range panics in List and ends the request.
ListTasks(userID, status, reqPage, reqPageSize, reqSortBy, reqSortOrder) ==
    /\ Serving
    /\ reqs.list = NoList
    /\ LET page == IF reqPage < 1 THEN 1 ELSE reqPage
           pageSize == IF reqPageSize < 1 \/ reqPageSize > 100 THEN 20
                       ELSE reqPageSize
           sortBy == IF reqSortBy = "" THEN "startTime" ELSE reqSortBy
           sortOrder == IF reqSortOrder = "" THEN "desc" ELSE reqSortOrder
       IN \E r \in List(cache, tasks, userID, status, page, pageSize,
                         sortBy, sortOrder) :
             IF r.err # ""
             THEN /\ ret' = [op |-> "listTasks", owner |-> userID,
                             err |-> r.err, total |-> r.total,
                             page |-> page, pageSize |-> pageSize,
                             items |-> r.items, statuses |-> <<>>,
                             positions |-> <<>>]
                  /\ UNCHANGED reqs
             ELSE /\ reqs' = [reqs EXCEPT !.list =
                                 [owner |-> userID, page |-> page,
                                  pageSize |-> pageSize, items |-> r.items,
                                  total |-> r.total, sums |-> <<>>,
                                  pc |-> "summaries"]]
                  /\ UNCHANGED ret
    /\ ListFrame
    /\ UNCHANGED tasks

\* Lines 676-679: task.ToSummary() of the next task listed, which reads
\* the fields of the task without a lock.
ListTasksSummary ==
    /\ reqs.list.pc = "summaries"
    /\ Len(reqs.list.sums) < Len(reqs.list.items)
    /\ LET t == reqs.list.items[Len(reqs.list.sums) + 1]
       IN reqs' = [reqs EXCEPT !.list.sums = Append(@, tasks[t].status)]
    /\ ListFrame
    /\ UNCHANGED <<ret, tasks>>

\* Lines 682-697: GetQueuedTasks, the queue position of every summary
\* whose id is in the queue, and the response.  The task objects go with
\* their last holder.
ListTasksPositions ==
    /\ reqs.list.pc = "summaries"
    /\ Len(reqs.list.sums) = Len(reqs.list.items)
    /\ LET l == reqs.list
       IN /\ \E queuedTasks \in GetQueuedTasks(cache, tasks, l.owner) :
                ret' = [op |-> "listTasks", owner |-> l.owner, err |-> "",
                        total |-> l.total, page |-> l.page,
                        pageSize |-> l.pageSize, items |-> l.items,
                        statuses |-> l.sums,
                        positions |->
                            [i \in 1..Len(l.items) |->
                                QueuePosition(queuedTasks, l.items[i])]]
          /\ tasks' = [t \in Ids |->
                         IF \/ ~InSeq(t, l.items)
                            \/ t \in cache
                            \/ exec[t].pc # "none"
                            \/ \E v \in Viewers :
                                  /\ viewer[v].task = t
                                  /\ viewer[v].pc \notin DonePcs
                            \/ \E r \in reqs.rep : r.id = t
                         THEN tasks[t] ELSE NoTask]
    /\ reqs' = [reqs EXCEPT !.list = NoList]
    /\ ListFrame

\* The sort fields and orders a list request can name: none, those that
\* sortTasks knows, and one that it does not.
SortFields == {"", "startTime", "endTime", "status"}

SortOrders == {"", "asc", "desc", "DESC"}

\* Tasks of two users whose scans go as far as their first assignments,
\* deletions, and one list request, of any page, that any of these steps
\* can interleave.
QueueNext ==
    \/ \E o \in Owners :
          /\ \A t \in cache : tasks[t].startTime < now
          /\ \A t \in Ids : exec[t].pc # "created"
          /\ CreateScanTaskCreate(o, DefaultFormat, "ok")
    \/ \E t \in Ids : CreateScanTaskSelect(t)
    \/ Tick(MaxNow)
    \/ \E t \in Ids : ExecMark(t)
    \/ Deletes(1, {TRUE}, {"ok"})
    \/ /\ ret.op # "listTasks"
       /\ \E o \in Owners, st \in {"", ScanStatusQueued},
             reqPage \in {0, 1, MaxInt},
             sortBy \in SortFields, sortOrder \in SortOrders :
             ListTasks(o, st, reqPage, 0, sortBy, sortOrder)
    \/ ListTasksSummary
    \/ ListTasksPositions

QueueSpec == StoreInit /\ [][QueueNext]_vars

(***************************************************************************)
(* Restart of the store: NewFileBasedScanRepository on the directory that  *)
(* an earlier repository left behind, with the records its failed writes   *)
(* have truncated.                                                         *)
(***************************************************************************)
\* NewFileBasedScanRepository: an empty cache filled by loadAllTasks, whose
\* walk returns nil for a file that does not load.  walk: MkdirAll and the
\* walk itself succeed; when they do not, the constructor returns an error
\* and no repository.
Reopen(walk) ==
    /\ IF walk
       THEN /\ cache' = {t \in Ids : Loadable(disk[t])}
            /\ tasks' = loadAllTasks(disk, results)
            /\ ret' = [op |-> "open", err |-> ""]
            /\ phase' = "up"
       ELSE /\ cache' = {}
            /\ tasks' = [t \in Ids |-> NoTask]
            /\ ret' = [op |-> "open", err |-> "load"]
            /\ phase' = "down"
    /\ UNCHANGED <<cfgMaxWorkers, cfgServerURL, cfgRetentionDays, reqs, now,
                   reports, cleaner, workerUp, sweepTick, workerPool,
                   disk, results, exec, nextId, resp, chans, viewer>>

PersistNext ==
    \/ \E t \in StoreIds, o \in {SharedUser}, w \in WriteOutcomes :
          repoCreate(t, CallerTask(o, ScanStatusQueued, FALSE), w)
    \/ \E t \in StoreIds, st \in Statuses \ {ScanStatusQueued},
          shared \in BOOLEAN,
          w \in WriteOutcomes :
          repoUpdateCall(t, st, st \in Terminal, shared, w)
    \/ \E t \in StoreIds, w \in RemoveOutcomes : repoDelete(t, w)
    \/ \E t \in StoreIds : repoGetByID(t)
    \/ \E walk \in BOOLEAN : Reopen(walk)

PersistSpec == StoreInit /\ [][PersistNext]_vars

(***************************************************************************)
(* scanServiceImpl.DeleteAllTasks, called by ScanHandler.DeleteAllScans:   *)
(* one List, then for every task listed deleteReport and repo.Delete, each *)
(* a step of its own.                                                      *)
(***************************************************************************)
DeleteAllPageSize == 10000  \* PageSize: 10000, "Large number to get all"

\* How many tasks repo.List hands back for a page, out of total matches
\* (the program's int is wide enough for these products and sums).
pageLen(total, page, pageSize) ==
    LET start == (page - 1) * pageSize
        end == IF start + pageSize > total THEN total ELSE start + pageSize
    IN IF start >= total THEN 0 ELSE end - start

\* The matches that DeleteAllTasks never looks at, out of total.
leftByDeleteAll(total) == total - pageLen(total, 1, DeleteAllPageSize)

\* What DeleteAllTasks returns (always nil), with the tasks it had listed
\* and those whose repo.Delete it logged as failed.
DeleteAllReturns(userID, listed, logged) ==
    [op |-> "deleteAll", owner |-> userID, err |-> "", listed |-> listed,
     logged |-> logged]

\* Lines 974-990: the List of page 1; nothing listed ends the call.
DeleteAllList(userID) ==
    /\ Serving
    /\ reqs.all = NoDeleteAll
    /\ \E r \in List(cache, tasks, userID, "", 1, DeleteAllPageSize, "", "") :
          IF r.items = <<>>
          THEN /\ ret' = DeleteAllReturns(userID, {}, {})
               /\ UNCHANGED reqs
          ELSE /\ reqs' = [reqs EXCEPT !.all =
                              [owner |-> userID, todo |-> r.items,
                               cur |-> Nil,
                               old |-> {r.items[i] : i \in 1..Len(r.items)},
                               err |-> {}, dr |-> NoReport]]
               /\ UNCHANGED ret
    /\ resp' = NoResp
    /\ UNCHANGED <<cfgMaxWorkers, cfgServerURL, cfgRetentionDays, now, reports,
                   cleaner, phase, workerUp, sweepTick, workerPool, tasks,
                   cache, disk, results, exec, nextId, chans, viewer>>

\* Line 996: deleteReport is called for the next task listed and looks it
\* up.
DeleteAllReport ==
    /\ Serving
    /\ reqs.all.cur = Nil
    /\ reqs.all.todo # <<>>
    /\ reqs' = [reqs EXCEPT
                  !.all.cur = Head(reqs.all.todo),
                  !.all.todo = Tail(@),
                  !.all.dr = deleteReportLookup(cache, Head(reqs.all.todo))]
    /\ resp' = NoResp
    /\ UNCHANGED <<cfgMaxWorkers, cfgServerURL, cfgRetentionDays, now,
                   reports, ret, cleaner, phase, workerUp, sweepTick,
                   workerPool, tasks, cache, disk, results, exec, nextId,
                   chans, viewer>>

\* deleteReport of that task: its next os.Stat or os.Remove.  Its error is
\* logged (lines 995-1000).
DeleteAllRemoval(ok) ==
    /\ Serving
    /\ reqs.all.cur # Nil
    /\ reqs.all.dr # NoReport
    /\ LET a == reqs.all
       IN /\ reports' = deleteReportFiles(a.dr, reports, a.cur, ok)
          /\ reqs' = [reqs EXCEPT !.all.dr =
                                      deleteReportStep(a.dr, reports, a.cur,
                                                       ok)]
    /\ resp' = NoResp
    /\ UNCHANGED <<cfgMaxWorkers, cfgServerURL, cfgRetentionDays, now, ret,
                   cleaner, phase, workerUp, sweepTick, workerPool, tasks,
                   cache, disk, results, exec, nextId, chans, viewer>>

\* Lines 1003-1014: repo.Delete of that task; a failure is logged and the
\* loop goes on; after the last task the call returns nil.
DeleteAllRepo(w) ==
    /\ Serving
    /\ reqs.all.cur # Nil
    /\ reqs.all.dr = NoReport
    /\ LET a == reqs.all
           logged == IF repoDeletes(cache, a.cur, w) THEN a.err
                     ELSE a.err \cup {a.cur}
       IN /\ repoDeleteApply(a.cur, w)
          /\ IF a.todo = <<>>
             THEN /\ ret' = DeleteAllReturns(a.owner, a.old, logged)
                  /\ reqs' = [reqs EXCEPT !.all = NoDeleteAll]
             ELSE /\ reqs' = [reqs EXCEPT !.all.cur = Nil,
                                          !.all.err = logged]
                  /\ UNCHANGED ret
    /\ resp' = NoResp
    /\ UNCHANGED <<cfgMaxWorkers, cfgServerURL, cfgRetentionDays, now,
                   reports, cleaner, phase, workerUp, sweepTick, workerPool,
                   exec, nextId, chans, viewer>>

DeleteAllNext ==
    \/ \E o \in Owners, f \in Formats :
          /\ nextId <= OwnedTasks
          /\ \A t \in Ids : exec[t].pc = "none"
          /\ CreateScanTaskCreate(o, f, "ok")
    \/ \E t \in Ids : CreateScanTaskSelect(t)
    \/ QuietScans({"success", "exit"}, {"ok"})
    \/ \E o \in Owners : DeleteAllList(o)
    \/ DeleteAllReport
    \/ \E ok \in BOOLEAN : DeleteAllRemoval(ok)
    \/ \E w \in RemoveOutcomes : DeleteAllRepo(w)

DeleteAllSpec == StoreInit /\ [][DeleteAllNext]_vars

(***************************************************************************)
(* Listing: tasks of two owners created over time, and List requests.      *)
(***************************************************************************)
Pages == (1..MaxPage) \cup {MaxInt}
PageSizes == 1..MaxPageSize
ListStatuses == {ScanStatusQueued, ScanStatusCompleted}

ListNext ==
    \/ \E t \in Ids, o \in Owners, st \in ListStatuses :
          /\ t = Cardinality(cache) + 1
          /\ repoCreate(t, CallerTask(o, st, FALSE), "ok")
    \/ Tick(ListNow)
    \/ \E o \in Owners, st \in ListStatuses \cup {""}, page \in Pages,
          pageSize \in PageSizes, sortOrder \in {"asc", "desc"} :
          repoList(o, st, page, pageSize, "startTime", sortOrder)

ListSpec == StoreInit /\ [][ListNext]_vars

(***************************************************************************)
(* The cleanupWorker goroutine and the retention sweep: one                *)
(* GetAllOldTasks, then for every task listed deleteReport and             *)
(* repo.Delete, each a step of its own.                                    *)
(***************************************************************************)
\* cleanupOldReports: cutoffTime := time.Now().AddDate(0, 0, -days).
cutoffOf(days) == now - days

\* What a finished sweep leaves in the log: its cutoff, the tasks it had
\* listed and those whose repo.Delete it logged as failed.
SweepLogs(cutoffTime, listed, logged) ==
    [op |-> "cleanup", cutoff |-> cutoffTime, listed |-> listed,
     err |-> logged]

\* cleanupOldReports, lines 780-801: the cutoff and GetAllOldTasks; with
\* nothing old the sweep is over ("No old reports to clean up").
cleanupOldReports ==
    LET cutoffTime == cutoffOf(cfgRetentionDays)
        oldTasks == GetAllOldTasks(cache, tasks, cutoffTime)
    IN IF oldTasks = {}
       THEN /\ ret' = SweepLogs(cutoffTime, {}, {})
            /\ cleaner' = "loop"
            /\ UNCHANGED reqs
       ELSE /\ reqs' = [reqs EXCEPT !.sweep =
                           [todo |-> oldTasks, cur |-> Nil, old |-> oldTasks,
                            err |-> {}, cutoff |-> cutoffTime,
                            dr |-> NoReport]]
            /\ cleaner' = "sweeping"
            /\ UNCHANGED ret

\* What the steps of the cleanupWorker leave alone.
CleanerFrame ==
    UNCHANGED <<cfgMaxWorkers, cfgServerURL, cfgRetentionDays, now, phase,
                workerUp, sweepTick, workerPool, exec, nextId, resp, chans,
                viewer>>

\* cleanupWorker: "Run cleanup immediately on startup".
cleanupStartup ==
    /\ Serving
    /\ cleaner = "startup"
    /\ cleanupOldReports
    /\ CleanerFrame
    /\ UNCHANGED <<reports, tasks, cache, disk, results>>

\* cleanupWorker: case <-ticker.C, every hour; the sweep runs in the tick
\* that falls into hour 2 of the day.
cleanupTick(isTwoAM) ==
    /\ Serving
    /\ cleaner = "loop"
    /\ IF isTwoAM THEN cleanupOldReports ELSE UNCHANGED <<ret, cleaner, reqs>>
    /\ CleanerFrame
    /\ UNCHANGED <<reports, tasks, cache, disk, results>>

\* Line 805: deleteReport is called for the next old task (the slice is in
\* map order) and looks it up.
cleanupDeleteReport(t) ==
    /\ Serving
    /\ cleaner = "sweeping"
    /\ reqs.sweep.cur = Nil
    /\ t \in reqs.sweep.todo
    /\ reqs' = [reqs EXCEPT !.sweep.cur = t, !.sweep.todo = @ \ {t},
                            !.sweep.dr = deleteReportLookup(cache, t)]
    /\ CleanerFrame
    /\ UNCHANGED <<reports, ret, cleaner, tasks, cache, disk, results>>

\* deleteReport of that task: its next os.Stat or os.Remove.  Its error is
\* logged (lines 806-810).
cleanupRemoval(ok) ==
    /\ Serving
    /\ cleaner = "sweeping"
    /\ reqs.sweep.cur # Nil
    /\ reqs.sweep.dr # NoReport
    /\ LET a == reqs.sweep
       IN /\ reports' = deleteReportFiles(a.dr, reports, a.cur, ok)
          /\ reqs' = [reqs EXCEPT !.sweep.dr =
                                      deleteReportStep(a.dr, reports, a.cur,
                                                       ok)]
    /\ CleanerFrame
    /\ UNCHANGED <<ret, cleaner, tasks, cache, disk, results>>

\* Lines 813-825: repo.Delete of that task; a failure is logged and the
\* loop goes on; after the last task the sweep is over.
cleanupDelete(w) ==
    /\ Serving
    /\ cleaner = "sweeping"
    /\ reqs.sweep.cur # Nil
    /\ reqs.sweep.dr = NoReport
    /\ LET a == reqs.sweep
           logged == IF repoDeletes(cache, a.cur, w) THEN a.err
                     ELSE a.err \cup {a.cur}
       IN /\ repoDeleteApply(a.cur, w)
          /\ IF a.todo = {}
             THEN /\ ret' = SweepLogs(a.cutoff, a.old, logged)
                  /\ reqs' = [reqs EXCEPT !.sweep = NoSweep]
                  /\ cleaner' = "loop"
             ELSE /\ reqs' = [reqs EXCEPT !.sweep.cur = Nil,
                                          !.sweep.err = logged]
                  /\ UNCHANGED <<ret, cleaner>>
    /\ CleanerFrame
    /\ UNCHANGED reports

\* cleanupWorker: case <-s.stopCh: return.
cleanupWorkerExit ==
    /\ phase = "stopping"
    /\ cleaner = "loop"
    /\ cleaner' = "none"
    /\ UNCHANGED <<cfgMaxWorkers, cfgServerURL, cfgRetentionDays, reqs, now,
                   reports, ret, phase, workerUp, sweepTick, workerPool, tasks,
                   cache, disk, results, exec, nextId, resp, chans, viewer>>

\* Deployments with and without a retention window, five workers; the
\* service restarts after a shutdown.
RetentionInit ==
    /\ cfgMaxWorkers = 0
    /\ cfgServerURL = ""
    /\ cfgRetentionDays \in 0..MaxRetentionDays
    /\ cleaner = cleanerAtStart(cfgRetentionDays)
    /\ Fresh

RetentionNext ==
    \/ /\ nextId <= RetentionTasks
       /\ \A t \in Ids : exec[t].pc = "none"
       /\ CreateScanTaskCreate(SharedUser, DefaultFormat, "ok")
    \/ \E t \in Ids : CreateScanTaskSelect(t)
    \/ QuietScans({"success", "timeout"}, {"ok"})
    \/ Tick(MaxNow)
    \/ cleanupStartup
    \/ \E isTwoAM \in BOOLEAN : cleanupTick(isTwoAM)
    \/ \E t \in Ids : cleanupDeleteReport(t)
    \/ \E ok \in BOOLEAN : cleanupRemoval(ok)
    \/ \E w \in RemoveOutcomes : cleanupDelete(w)
    \/ Stop
    \/ queueWorkerExit
    \/ cleanupWorkerExit
    \/ \E walk \in BOOLEAN : StopReturn(walk)

RetentionSpec == RetentionInit /\ [][RetentionNext]_vars

(***************************************************************************)
(* The service as shipped: every flag at its default.                      *)
(***************************************************************************)
ShippedInit ==
    /\ cfgMaxWorkers = FlagMaxWorkers
    /\ cfgServerURL = ""
    /\ cfgRetentionDays = FlagRetentionDays
    /\ cleaner = cleanerAtStart(cfgRetentionDays)
    /\ Fresh

ShippedNext ==
    \/ Submit(ShippedTasks)
    \/ QuietScans({"success", "exit"}, ReportWrites)
    \/ processQueueAcquire
    \/ processQueueRelease
    \/ cleanupStartup
    \/ \E isTwoAM \in BOOLEAN : cleanupTick(isTwoAM)

ShippedSpec == ShippedInit /\ [][ShippedNext]_vars

(***************************************************************************)
(* Scans that end in every way ExecuteCommand and the parsing of its       *)
(* output can end, in the default format and in another one, with a Trivy  *)
(* server configured that may not answer.                                  *)
(***************************************************************************)
ExecNext ==
    \/ /\ nextId <= ExecTasks
       /\ \A t \in Ids : exec[t].pc = "none"
       /\ \E f \in Formats, w \in WriteOutcomes :
             CreateScanTaskCreate(SharedUser, f, w)
    \/ \E t \in Ids : CreateScanTaskSelect(t)
    \/ ScanBegins({"ok", "untouched"}, PlainAnswers)
    \/ ScanVersioned({"ok", "untouched"})
    \/ \E t \in Ids : ExecOutput(t, ExecOutLines)
    \/ ScanEnds(ScanOutcomes, ReportWrites, WriteOutcomes)

ExecSpec == StreamInit /\ [][ExecNext]_vars

(***************************************************************************)
(* ExecuteCommand: the two goroutines that scan stdout and stderr of the   *)
(* subprocess call the logCallback concurrently.                           *)
(***************************************************************************)
ProducersNext ==
    \/ /\ \A t \in Ids : exec[t].pc = "none"
       /\ Submit(ExecTasks)
    \/ \E t \in Ids : CreateScanTaskSelect(t)
    \/ ScanBegins({"ok"}, Answers)
    \/ ScanVersioned({"ok"})
    \/ \E t \in Ids : ExecOutput(t, ProducerLines)
    \/ \E t \in Ids : ExecErrOutput(t, ProducerLines)
    \/ ScanEnds(StreamOutcomes, {"ok"}, {"ok"})

ProducersSpec == StreamInit /\ [][ProducersNext]_vars

(***************************************************************************)
(* reportServiceImpl.GetReport, called by ReportHandler.DownloadReport     *)
(* (GET /scan/:id/report/:format), step by step: it converts the report    *)
(* of a completed task and saves what it converted.                        *)
(***************************************************************************)
\* getFileExtension: the extension of the report file of a format.
getFileExtension(format) ==
    CASE format = "json" -> "json"
      [] format = "table" -> "txt"
      [] format = "sarif" -> "sarif"
      [] format = "cyclonedx" -> "cyclonedx.json"
      [] format = "spdx" -> "spdx.json"
      [] format = "html" -> "html"
      [] OTHER -> "txt"

\* The report of the request in the format asked for, and the one that
\* saveReport wrote.
reportPath(r) == <<r.id, getFileExtension(r.format)>>

originalPath(r) == <<r.id, getFileExtension(tasks[r.id].format)>>

\* Lines 627-633: GetByID; "task not found" ends the call.  The request
\* keeps the pointer to the task it was given.
GetReportLookup(t, format) ==
    /\ Serving
    /\ Cardinality(reqs.rep) < MaxReportRequests
    /\ GetByIDFinds(cache, t)
    /\ reqs' = [reqs EXCEPT !.rep =
                   @ \cup {[id |-> t, format |-> format, pc |-> "got"]}]
    /\ resp' = NoResp
    /\ UNCHANGED <<cfgMaxWorkers, cfgServerURL, cfgRetentionDays, now, reports,
                   ret, cleaner, phase, workerUp, sweepTick, workerPool, tasks,
                   cache, disk, results, exec, nextId, chans, viewer>>

\* The request r goes on to its next position.
GetReportGoes(r, pc) ==
    /\ reqs' = [reqs EXCEPT !.rep = (@ \ {r}) \cup {[r EXCEPT !.pc = pc]}]
    /\ UNCHANGED tasks

\* The request r returns; the task object goes with its last holder.
GetReportReturns(r) ==
    /\ reqs' = [reqs EXCEPT !.rep = @ \ {r}]
    /\ tasks' = [tasks EXCEPT ![r.id] =
                    IF \/ r.id \in cache
                       \/ exec[r.id].pc # "none"
                       \/ \E v \in Viewers : /\ viewer[v].task = r.id
                                             /\ viewer[v].pc \notin DonePcs
                       \/ \E q \in reqs.rep \ {r} : q.id = r.id
                       \/ InSeq(r.id, reqs.list.items)
                    THEN @ ELSE NoTask]

\* What the steps of GetReport leave alone.
ReportFrame ==
    /\ resp' = NoResp
    /\ UNCHANGED <<cfgMaxWorkers, cfgServerURL, cfgRetentionDays, now, ret,
                   cleaner, phase, workerUp, sweepTick, workerPool, cache,
                   disk, results, exec, nextId, chans, viewer>>

\* Lines 634-636: task.Status is read, with no lock held, from the task
\* that GetByID returned; "task not completed" ends the call.
GetReportStatus(r) ==
    /\ r \in reqs.rep
    /\ r.pc = "got"
    /\ IF tasks[r.id].status = ScanStatusCompleted
       THEN GetReportGoes(r, "stat")
       ELSE GetReportReturns(r)
    /\ ReportFrame
    /\ UNCHANGED reports

\* os.Stat(reportPath): a report that is there is read and returned.
GetReportStat(r) ==
    /\ r \in reqs.rep
    /\ r.pc = "stat"
    /\ IF reportPath(r) \in reports
       THEN GetReportReturns(r)
       ELSE GetReportGoes(r, "original")
    /\ ReportFrame
    /\ UNCHANGED reports

\* os.Stat(originalPath): an original that is missing is written from
\* task.Result.Data when there is any (o: how the write ends; its error
\* ends the call), else "original report not found".
GetReportOriginal(r, o) ==
    /\ r \in reqs.rep
    /\ r.pc = "original"
    /\ IF originalPath(r) \in reports
       THEN GetReportGoes(r, "convert") /\ UNCHANGED reports
       ELSE IF hasData(tasks[r.id])
       THEN /\ reports' = IF o \in {"ok", "cut"}
                          THEN reports \cup {originalPath(r)} ELSE reports
            /\ IF o = "ok" THEN GetReportGoes(r, "convert")
               ELSE GetReportReturns(r)
       ELSE GetReportReturns(r) /\ UNCHANGED reports
    /\ ReportFrame

\* convertReport: the trivy convert subprocess reads the original (ok: it
\* succeeds within its 30 seconds and its output can be read).
GetReportConvert(r, ok) ==
    /\ r \in reqs.rep
    /\ r.pc = "convert"
    /\ IF ok /\ originalPath(r) \in reports
       THEN GetReportGoes(r, "save")
       ELSE GetReportReturns(r)
    /\ ReportFrame
    /\ UNCHANGED reports

\* os.WriteFile(reportPath, convertedData): a failure is logged and the data
\* is returned all the same.
GetReportSave(r, o) ==
    /\ r \in reqs.rep
    /\ r.pc = "save"
    /\ reports' = IF o \in {"ok", "cut"} THEN reports \cup {reportPath(r)}
                  ELSE reports
    /\ GetReportReturns(r)
    /\ ReportFrame

\* The formats the download requests of the model ask for.
ReportFormats == {"json", "sarif"}

\* The requests that can be under way: one per task and format.
ReportRequests ==
    [id : Ids, format : ReportFormats,
     pc : {"got", "stat", "original", "convert", "save"}]

GetReport ==
    \/ \E t \in Ids, f \in ReportFormats : GetReportLookup(t, f)
    \/ \E r \in ReportRequests : GetReportStatus(r)
    \/ \E r \in ReportRequests : GetReportStat(r)
    \/ \E r \in ReportRequests, o \in ReportWrites : GetReportOriginal(r, o)
    \/ \E r \in ReportRequests, ok \in BOOLEAN : GetReportConvert(r, ok)
    \/ \E r \in ReportRequests, o \in ReportWrites : GetReportSave(r, o)

(***************************************************************************)
(* Deletions and downloads that race with the end of a scan: DeleteTask    *)
(* and GetReport at any moment of executeScan.  No write of the store      *)
(* fails.                                                                  *)
(***************************************************************************)
RaceNext ==
    \/ \E f \in Formats :
          nextId <= RaceTasks /\ CreateScanTaskCreate(SharedUser, f, "ok")
    \/ \E t \in Ids : CreateScanTaskSelect(t)
    \/ ScanBegins({"ok"}, PlainAnswers)
    \/ \E t \in Ids : ExecOutput(t, ExecOutLines)
    \/ ScanEnds(ScanOutcomes, ReportWrites, {"ok"})
    \/ Deletes(MaxDeleteCalls, {TRUE}, {"ok"})
    \/ GetReport

RaceSpec == Init /\ [][RaceNext]_vars

(***************************************************************************)
(* The worker pool in deployments with one worker and with the default     *)
(* number: submissions, scans that end in every way, the ticks of the      *)
(* queueWorker and deletions, without write failures.                      *)
(***************************************************************************)
SlotInit ==
    /\ cfgMaxWorkers \in 0..MaxWorkersCfg
    /\ cfgServerURL = ""
    /\ cfgRetentionDays = 0
    /\ cleaner = cleanerAtStart(cfgRetentionDays)
    /\ Fresh

SlotNext ==
    \/ Submit(SpecTasks)
    \/ QuietScans(ScanOutcomes, ReportWrites)
    \/ processQueueAcquire
    \/ processQueueRelease
    \/ Deletes(1, {TRUE}, {"ok"})

SlotSpec == SlotInit /\ [][SlotNext]_vars

(***************************************************************************)
(* The API with the documented cancel request.                             *)
(***************************************************************************)
ApiNext ==
    \/ Submit(SpecTasks)
    \/ QuietScans(Outcomes, ReportWrites)
    \/ Deletes(1, BOOLEAN, RemoveOutcomes)
    \/ \E t \in Ids : CancelScan(t)

ApiSpec == Init /\ [][ApiNext]_vars

(***************************************************************************)
(* Progress: the scheduler without shutdown, crashes, deletions and write  *)
(* failures, with the ticker, the scan goroutines and the subprocesses     *)
(* (bounded by the execution timeout) scheduled fairly.                    *)
(***************************************************************************)
\* The next step of executeScan(t), when nothing fails to be written.
ScanStepOf(t) ==
    \/ ScanBeginsOf(t, {"ok"}, PlainAnswers)
    \/ ScanEndsOf(t, Outcomes, ReportWrites, {"ok"})

FairNext ==
    \/ Submit(FairTasks)
    \/ \E t \in Ids : ScanStepOf(t)
    \/ processQueueAcquire
    \/ processQueueRelease

FairSpec ==
    /\ Init
    /\ [][FairNext]_vars
    /\ WF_vars(processQueueAcquire)
    /\ WF_vars(processQueueRelease)
    /\ \A t \in Ids : WF_vars(CreateScanTaskSelect(t)) /\ WF_vars(ScanStepOf(t))

(***************************************************************************)
(* Properties of the scheduler.                                            *)
(***************************************************************************)
\* The worker limit N of the configuration.
WorkerLimit == IF cfgMaxWorkers <= 0 THEN DefaultMaxWorkers ELSE cfgMaxWorkers

RunningTasks == {t \in Ids : tasks[t].status = ScanStatusRunning}

\* Tasks in the index that wait in the backlog: queued and not admitted.
Waiting == {t \in cache : tasks[t].status = ScanStatusQueued
                          /\ exec[t].pc = "none"}

\* C1: in every reachable state the number of tasks whose status is running
\* (in the index or deleted from it meanwhile) is at most the worker limit N,
\* N being 5 when config.MaxWorkers <= 0.
C1_RunningWithinLimit ==
    /\ Cardinality(RunningTasks) <= WorkerLimit
    /\ workerPool <= WorkerLimit

\* C1 witness: the limit is 1, one task runs and another one had to wait.
C1_Witness ==
    /\ WorkerLimit = 1
    /\ Cardinality(RunningTasks) = 1
    /\ Waiting # {}

\* The status changes the lifecycle allows.
Allowed(a, b) ==
    \/ a = b
    \/ a = ScanStatusQueued /\ b \in {ScanStatusRunning, ScanStatusFailed}
    \/ a = ScanStatusRunning /\ b \in {ScanStatusCompleted, ScanStatusFailed}

\* C2 (as claimed): the status a reader of the store sees for a task only
\* moves along queued -> running -> completed|failed or queued -> failed; it
\* never returns to queued and never leaves completed or failed.
C2_StatusMonotonic ==
    [][\A t \in Ids : (t \in cache /\ t \in cache')
                      => Allowed(tasks[t].status, tasks'[t].status)]_vars

\* C3 (as claimed): when a slot is free while a task waits in the backlog,
\* the oldest waiting task eventually leaves the backlog (is admitted).
C3_QueuedEventuallyAdmitted ==
    \A t \in Ids :
        (t \in Waiting /\ (\A u \in Waiting : t <= u)
                       /\ workerPool < WorkerLimit)
        ~> (t \notin Waiting)

\* The step in which a tick of the sweep, holding a slot, decides: it
\* starts the task that getNextQueuedTask gave it or gives the slot back.
SweepDecides == sweepTick = 1 /\ sweepTick' = 0

\* C4: the sweep never takes a task from the backlog into execution while a
\* task created earlier still waits there: a task that a tick starts is a
\* waiting task with no older waiting task, and a tick changes the status
\* of no task.
C4_SweepFifo ==
    [][SweepDecides =>
          /\ \A t \in Ids :
                (exec[t].pc # "spawned" /\ exec'[t].pc = "spawned") =>
                    /\ t \in Waiting
                    /\ ~ \E u \in Waiting : u < t
          /\ \A t \in Ids : tasks'[t].status = tasks[t].status]_vars

\* With a limit of 1: two tasks were submitted while ticks of the sweep held
\* the only slot, so both wait in the backlog and nothing has ever been
\* admitted; the last tick has decided with both of them waiting and has
\* given the slot back.
C4_Witness ==
    /\ WorkerLimit = 1 /\ workerPool = 0 /\ sweepTick = 0
    /\ nextId = 3 /\ Waiting = {1, 2}
    /\ InFlight = {}

\* Admission by submission is not in creation order: the select of
\* CreateScanTask takes a free slot for the new task whatever waits in the
\* backlog.  (Violated.)
AdmissionInCreationOrder ==
    [][\A t \in Ids :
          (exec[t].pc # "spawned" /\ exec'[t].pc = "spawned")
          => ~ \E u \in Waiting : u < t]_vars

\* A start of the service, after a crash or a shutdown, whether or not
\* the repository comes up (a start leaves no execution and no request).
Restarts ==
    /\ exec' = [t \in Ids |-> NoExec]
    /\ reqs' = NoReqs
    /\ ret' = NoRet
    /\ \E walk \in BOOLEAN : Crash(walk) \/ StopReturn(walk)

\* A start that brings the service up.
Started == Restarts /\ phase' = "up"

\* A step of the running process: not a start of the service.
InProcess == ~Restarts

\* C5: a successful submit stores the new task as queued (index and file)
\* before it looks at the pool; its select then takes a worker slot and
\* starts the execution at once exactly when a slot is free, otherwise it
\* leaves pool and task alone; the task it returns is queued or running.
C5_SubmitAdmitsOrQueues ==
    [][/\ nextId' # nextId =>
             /\ nextId' = nextId + 1
             /\ nextId \in cache' =>
                   /\ disk'[nextId].status = ScanStatusQueued
                   /\ tasks'[nextId].status = ScanStatusQueued
                   /\ exec'[nextId].pc = "created"
                   /\ workerPool' = workerPool
       /\ \A t \in Ids :
             (exec[t].pc = "created" /\ exec'[t].pc # "created" /\ InProcess)
             => /\ IF workerPool < WorkerLimit
                   THEN /\ exec'[t].pc = "spawned"
                        /\ workerPool' = workerPool + 1
                   ELSE /\ exec'[t].pc = "none"
                        /\ workerPool' = workerPool
                /\ t \in cache' =>
                      /\ tasks'[t] = tasks[t]
                      /\ tasks'[t].status \in {ScanStatusQueued,
                                                ScanStatusRunning}]_vars

\* C5 witness: with a limit of 1, one submitted task was admitted at once
\* and the next one was left queued with the pool full.
C5_Witness ==
    /\ WorkerLimit = 1 /\ workerPool = 1
    /\ \E t, u \in cache :
          /\ exec[t].pc = "spawned" /\ tasks[t].status = ScanStatusQueued
          /\ u > t /\ u \in Waiting

InterruptedMessage == "Scan interrupted by server restart"

\* C6: a (re)start recovers before anything else runs: every task whose
\* file says running is failed, with the interrupted message and an end
\* time, and has no execution; and a task so marked keeps that status.
C6_RecoveryAtStart ==
    [][/\ Started =>
            \A t \in Ids : disk[t].status = ScanStatusRunning =>
                /\ t \in cache'
                /\ tasks'[t].status = ScanStatusFailed
                /\ tasks'[t].message = InterruptedMessage
                /\ tasks'[t].hasEnd
                /\ exec'[t].pc = "none"
       /\ \A t \in Ids :
            (t \in cache /\ t \in cache'
                 /\ tasks[t].message = InterruptedMessage)
            => /\ tasks'[t].status = ScanStatusFailed
               /\ tasks'[t].message = InterruptedMessage]_vars

\* C6 witness: a task interrupted by a restart reads as failed.
C6_Witness ==
    \E t \in cache : /\ tasks[t].message = InterruptedMessage
                     /\ tasks[t].status = ScanStatusFailed
                     /\ tasks[t].hasEnd

\* C7 (as claimed): after a cancel request for a stored task, either it
\* succeeded and the task is failed with a cancellation message, or it was
\* refused as invalid state (400) and the task is running or finished.
C7_CancelOnlyQueued ==
    \A t \in cache :
        (resp.op = "cancel" /\ resp.id = t) =>
            \/ /\ resp.code = 200
               /\ tasks[t].status = ScanStatusFailed
               /\ tasks[t].message = "Task cancelled by user"
            \/ /\ resp.code = 400
               /\ tasks[t].status \in {ScanStatusRunning, ScanStatusCompleted,
                                       ScanStatusFailed}

\* C8 (as claimed): once Stop has been called no task is admitted any more.
C8_NoAdmissionAfterStop ==
    [][phase = "stopping" =>
          \A t \in Ids : exec[t].pc # "spawned" => exec'[t].pc # "spawned"]_vars

IsPrefix(a, b) == Len(a) <= Len(b) /\ SubSeq(b, 1, Len(a)) = a

\* C9 (as claimed): what a log viewer has been sent is always the task's
\* lines from the first one on, in append order, none twice and none
\* missing, and when its stream ends by the channel closing it has been
\* sent every line of the task.
C9_ExactlyOnceInOrder ==
    \A v \in Viewers :
        LET t == viewer[v].task
        IN /\ viewer[v].pc \in {"streaming", "closed", "gone"}
                => IsPrefix(viewer[v].out, tasks[t].LogLines)
           /\ viewer[v].pc = "closed"
                => viewer[v].out = tasks[t].LogLines

Listening(t) ==
    {c \in Viewers : \E i \in 1..Len(tasks[t].LogListeners) :
                         tasks[t].LogListeners[i] = c}

\* C10: an append of an output line is never blocked by the listeners; the
\* line is stored as the last line of the task, every listener with room
\* gets it appended to its buffer, and a listener whose buffer holds 100
\* lines keeps exactly those.
C10_AppendNeverBlocks ==
    [][\A t \in Ids :
         /\ (Serving /\ exec[t].pc = "running"
             /\ exec[t].lines < OverflowOutLines)
                => ENABLED ExecOutput(t, OverflowOutLines)
         /\ exec'[t].lines = exec[t].lines + 1 =>
              LET line == OutLine(exec'[t].lines)
              IN /\ tasks'[t].LogLines = Append(tasks[t].LogLines, line)
                 /\ \A c \in Listening(t) :
                       chans'[c].buf =
                           IF Len(chans[c].buf) < ListenerCap
                           THEN Append(chans[c].buf, line)
                           ELSE chans[c].buf]_vars

\* An unread listener that saw 150 or more appends holds the first 100.
C10_Witness ==
    \E t \in Ids, c \in Viewers :
        /\ exec[t].lines = OverflowOutLines
        /\ c \in Listening(t)
        /\ Len(chans[c].buf) = ListenerCap
        /\ \E s \in 0..Len(tasks[t].LogLines) :
              /\ Len(tasks[t].LogLines) - s >= OverflowOutLines
              /\ chans[c].buf =
                     SubSeq(tasks[t].LogLines, s + 1, s + ListenerCap)

\* Some query of the store shows the id t (a first page that holds every
\* task shows what any page shows).
Visible(c, ts, t) ==
    \/ GetByID(c, ts, t) # NoTask
    \/ \E o \in Owners : \E q \in GetQueuedTasks(c, ts, o) : InSeq(t, q)
    \/ t \in GetAllRunningTasks(c, ts)
    \/ \E cutoff \in 0..(MaxNow + 1) : t \in GetAllOldTasks(c, ts, cutoff)
    \/ \E o \in Owners, st \in Statuses \cup {""} :
          \E r \in List(c, ts, o, st, 1, MaxTasks, "startTime", "desc") :
              InSeq(t, r.items)

\* C11: a create of an id that is in the store answers already-exists and
\* leaves the stored record as it is; a create of a new id whose durable
\* write fails leaves the id out of the index and invisible to every query;
\* a create that succeeds publishes the task with its durable record written.
C11_CreateWriteThenPublish ==
    [][ret'.op = "create" =>
          LET t == ret'.id
          IN /\ t \in cache =>
                   /\ ret'.err = "exists"
                   /\ cache' = cache /\ tasks' = tasks /\ disk' = disk
                   /\ results' = results
             /\ t \notin cache =>
                   /\ ret'.err \in {"", "write"}
                   /\ ret'.err = "write" =>
                         /\ t \notin cache'
                         /\ ~Visible(cache', tasks', t)
                   /\ ret'.err = "" =>
                         /\ t \in cache'
                         /\ disk'[t] # NoFile
                         /\ disk'[t] = taskCopy(tasks'[t])]_vars

\* A create whose durable write failed, next to a stored task.
C11_Witness ==
    /\ ret.op = "create" /\ ret.err = "write"
    /\ ret.id \notin cache
    /\ cache # {}

\* C12: update and delete of an id that is not in the store answer
\* not-found and change nothing in the store.
C12_AbsentNotFound ==
    [][(ret'.op \in {"update", "delete"} /\ ret'.id \notin cache) =>
          /\ ret'.err = "notfound"
          /\ cache' = cache /\ tasks' = tasks /\ disk' = disk
          /\ results' = results]_vars

\* An update refused as not-found while another task is stored.
C12_Witness ==
    /\ ret.op = "update" /\ ret.err = "notfound"
    /\ ret.id \notin cache
    /\ cache # {}

\* C13 (as claimed): what get returns for a stored task is its durable
\* record: new field values are visible only once they have been written.
C13_UpdateWriteThenPublish ==
    \A t \in cache : taskCopy(GetByID(cache, tasks, t)) = disk[t]

\* C14: a successful delete takes the id out of the index and off the disk;
\* an id that is not in the index is in the state of a never-created id,
\* get answers absence, update and delete answer not-found, no query shows
\* it, and only a successful create brings it back.
C14_DeletedIsAbsent ==
    [][/\ (ret'.op = "delete" /\ ret'.err = "") =>
              /\ ret'.id \in cache
              /\ ret'.id \notin cache'
              /\ disk'[ret'.id] = NoFile
              /\ results'[ret'.id] = NoResult
              /\ ~Visible(cache', tasks', ret'.id)
       /\ \A t \in StoreIds :
              /\ (t \notin cache /\ t \in cache') =>
                     (ret'.op = "create" /\ ret'.id = t /\ ret'.err = "")
              /\ t \notin cache' =>
                     /\ tasks'[t] = NoTask
                     /\ (cache' # cache \/ tasks' # tasks) =>
                            ~Visible(cache', tasks', t)
              /\ t \notin cache =>
                     /\ (ret'.op = "get" /\ ret'.id = t) =>
                            (ret'.task = NoTask /\ ret'.err = "")
                     /\ (ret'.op \in {"update", "delete"} /\ ret'.id = t) =>
                            ret'.err = "notfound"]_vars

\* A delete has succeeded and the id is gone.
C14_Witness ==
    /\ ret.op = "delete" /\ ret.err = ""
    /\ ret.id \notin cache

\* The report files of a task.
reportsOf(rs, t) == {f \in rs : f[1] = t}

\* C15 (as claimed): a task with a report is, after any step of the
\* running service, either fully present (record and report file) or fully
\* absent.
C15_DeleteAtomic ==
    [][(\E t \in Ids :
           /\ t \in cache /\ reportsOf(reports, t) # {}
           /\ ~ \/ (t \in cache' /\ reportsOf(reports, t) \subseteq reports')
                \/ (t \notin cache' /\ reportsOf(reports', t) = {}))
       => ~InProcess]_vars

\* C16: get answers the stored record for an id in the store and absence,
\* without an error, for any other id.
C16_GetPresentOrAbsent ==
    [][ret'.op = "get" =>
          /\ ret'.err = ""
          /\ ret'.id \in cache => ret'.task = tasks[ret'.id]
          /\ ret'.id \notin cache => ret'.task = NoTask]_vars

\* A get of an id that is not stored, answered with absence.
C16_Witness ==
    /\ ret.op = "get" /\ ret.task = NoTask /\ ret.err = ""
    /\ cache # {}

Matches(o, st) ==
    {t \in cache : tasks[t].owner = o /\ (st # "" => tasks[t].status = st)}

\* C17 (as claimed): a list request answers without error, with the number
\* of matches as total and with the items at positions (page-1)*pageSize ..
\* page*pageSize-1 of the sorted matches: none when that start is at or
\* beyond the number of matches.
C17_ListPage ==
    [][ret'.op = "list" =>
          LET M == Matches(ret'.owner, ret'.status)
              total == Cardinality(M)
              first == (ret'.page - 1) * ret'.pageSize
              last == IF first + ret'.pageSize > total THEN total
                      ELSE first + ret'.pageSize
              key == [t \in M |-> tasks[t].startTime]
          IN /\ ret'.err = ""
             /\ ret'.total = total
             /\ first >= total => ret'.items = <<>>
             /\ first < total =>
                   \E q \in SortedSeqs(M, key, ret'.sortOrder = "desc") :
                       ret'.items = SubSeq(q, first + 1, last)]_vars

\* C18: every item of a list answer is a stored task of the asked owner
\* and, with a status filter, of the asked status; total counts all such
\* tasks of the store whatever the page.
C18_ListOwnerAndStatus ==
    [][(ret'.op = "list" /\ ret'.err = "") =>
          /\ \A i \in 1..Len(ret'.items) :
                LET t == ret'.items[i]
                IN /\ t \in cache
                   /\ tasks[t].owner = ret'.owner
                   /\ ret'.status # "" => tasks[t].status = ret'.status
          /\ ret'.total = Cardinality(
                {t \in cache : /\ tasks[t].owner = ret'.owner
                               /\ ret'.status # "" =>
                                      tasks[t].status = ret'.status})]_vars

\* A page shorter than the total, for an owner next to another's task.
C18_Witness ==
    /\ ret.op = "list" /\ ret.err = "" /\ ret.status # ""
    /\ Len(ret.items) >= 1
    /\ ret.total > Len(ret.items)
    /\ \E t \in cache : tasks[t].owner # ret.owner

\* The stored tasks a sweep at cutoff T is after: completed or failed, with
\* a completion time (creation time when there is none) before T.
StaleAt(T) ==
    {t \in cache : /\ tasks[t].status \in {ScanStatusCompleted,
                                            ScanStatusFailed}
                   /\ (IF tasks[t].hasEnd THEN tasks[t].endTime
                       ELSE tasks[t].startTime) < T}

\* A step of a retention sweep that has listed its tasks.
SweepStep == InProcess /\ reqs.sweep # NoSweep /\ reqs'.sweep # reqs.sweep

\* C19 (as claimed): a retention sweep at cutoff T is after exactly the
\* stored tasks that are completed or failed with a completion time
\* (creation time when there is none) before T; every task it removes is
\* such a task when it is removed; when it ends it has removed all of them
\* from the store, but for those whose removal the file system refused and
\* the sweep logged; and none of its steps touches any other task, its
\* record or its report.
C19_RetentionSweep ==
    [][/\ (InProcess /\ reqs.sweep = NoSweep /\ reqs'.sweep # NoSweep) =>
             /\ reqs'.sweep.cutoff = now - cfgRetentionDays
             /\ reqs'.sweep.old = StaleAt(reqs'.sweep.cutoff)
             /\ reqs'.sweep.old # {}
       /\ (ret'.op = "cleanup" /\ ret' # ret /\ reqs.sweep = NoSweep) =>
             /\ ret'.cutoff = now - cfgRetentionDays
             /\ StaleAt(ret'.cutoff) = {}
             /\ ret'.listed = {}
       /\ SweepStep =>
             /\ \A t \in cache \ cache' : t \in StaleAt(reqs.sweep.cutoff)
             /\ \A t \in cache \ reqs.sweep.old :
                   /\ t \in cache'
                   /\ tasks'[t] = tasks[t]
                   /\ disk'[t] = disk[t]
                   /\ results'[t] = results[t]
                   /\ reportsOf(reports', t) = reportsOf(reports, t)
       /\ (SweepStep /\ reqs'.sweep = NoSweep) =>
             /\ ret'.op = "cleanup"
             /\ ret'.cutoff = reqs.sweep.cutoff
             /\ ret'.listed = reqs.sweep.old
             /\ ret'.err \subseteq ret'.listed
             /\ \A t \in ret'.listed \ ret'.err :
                   /\ t \notin cache'
                   /\ disk'[t] = NoFile /\ results'[t] = NoResult]_vars

\* What a sweep does do: it is after the tasks that GetAllOldTasks finds
\* stale at T when it lists them (a task whose status is completed or
\* failed and whose end time is not written yet counts by its creation
\* time); when it ends it has removed all of them from the store, but for
\* those whose removal the file system refused and the sweep logged; and
\* none of its steps touches a task it has not listed.
SweepFollowsListing ==
    [][/\ (InProcess /\ reqs.sweep = NoSweep /\ reqs'.sweep # NoSweep) =>
             /\ reqs'.sweep.cutoff = now - cfgRetentionDays
             /\ reqs'.sweep.old = StaleAt(reqs'.sweep.cutoff)
             /\ reqs'.sweep.old # {}
       /\ (ret'.op = "cleanup" /\ ret' # ret /\ reqs.sweep = NoSweep) =>
             /\ ret'.cutoff = now - cfgRetentionDays
             /\ StaleAt(ret'.cutoff) = {}
             /\ ret'.listed = {}
       /\ SweepStep =>
             \A t \in cache \ reqs.sweep.old :
                 /\ t \in cache'
                 /\ tasks'[t] = tasks[t]
                 /\ disk'[t] = disk[t]
                 /\ results'[t] = results[t]
                 /\ reportsOf(reports', t) = reportsOf(reports, t)
       /\ (SweepStep /\ reqs'.sweep = NoSweep) =>
             /\ ret'.op = "cleanup"
             /\ ret'.cutoff = reqs.sweep.cutoff
             /\ ret'.listed = reqs.sweep.old
             /\ ret'.err \subseteq ret'.listed
             /\ \A t \in ret'.listed \ ret'.err :
                   /\ t \notin cache'
                   /\ disk'[t] = NoFile /\ results'[t] = NoResult]_vars

\* A sweep has deleted a stale task and kept one that ended on the cutoff
\* day.
SweptStaleKeptRecent ==
    /\ ret.op = "cleanup" /\ ret.err = {} /\ ret.listed # {}
    /\ ret.cutoff = now - cfgRetentionDays
    /\ ret.listed \cap cache = {}
    /\ \E u \in cache : /\ tasks[u].status \in Terminal
                        /\ tasks[u].hasEnd
                        /\ tasks[u].endTime = ret.cutoff

\* C20: with a retention window of zero there is no cleanup worker, no
\* sweep ever runs and no task leaves the store of the running service;
\* with a positive window every start of the service launches the worker,
\* the worker's first step is a sweep, and from then on the daily sweep
\* stays possible.
C20_RetentionZeroDisables ==
    [][/\ cfgRetentionDays = 0 =>
              /\ cleaner = "none" /\ cleaner' = "none"
              /\ ret'.op # "cleanup"
              /\ reqs'.sweep = NoSweep
              /\ InProcess => cache \subseteq cache'
       /\ cfgRetentionDays > 0 =>
              /\ (cleaner = "none" /\ cleaner' # "none") =>
                     cleaner' = "startup"
              /\ (phase = "stopping" /\ phase' = "up") =>
                     cleaner' = "startup"
              /\ (cleaner = "startup" /\ cleaner' \notin {"startup", "none"})
                     => \/ /\ cleaner' = "loop"
                           /\ ret'.op = "cleanup" /\ ret' # ret
                        \/ /\ cleaner' = "sweeping"
                           /\ reqs'.sweep.old # {}
              /\ (cleaner = "loop" /\ phase = "up") =>
                     ENABLED cleanupTick(TRUE)]_vars

\* Without a window, a task that ended days ago is still in the store.
C20_Witness ==
    /\ cfgRetentionDays = 0
    /\ now = MaxNow
    /\ \E t \in cache : /\ tasks[t].status \in Terminal
                        /\ taskTime(tasks[t]) = 0

\* C21 (as claimed): a store opened on the files an earlier one left behind
\* never fails on a record it cannot parse; every task that was created and
\* not deleted before is returned by get with the fields of its record, the
\* last durable write; every id whose record does not parse, or that has
\* none, is absent.
C21_RestartRebuildsIndex ==
    [][Reopen(TRUE) =>
          /\ ret'.op = "open" /\ ret'.err = ""
          /\ \A t \in Ids :
                LET got == GetByID(cache', tasks', t)
                IN /\ t \in cache =>
                          /\ got # NoTask
                          /\ taskCopy(got) = disk[t]
                   /\ disk[t] \in {NoFile, Unparsable} => got = NoTask]_vars

\* What a reopening does do when the walk of the directory succeeds: it
\* does not fail, every id with a parsable record is in the new index and
\* get returns the fields of that record, but for the Result, which is the
\* one of result.json when that file is there and parses, with an empty
\* log and no listener; every other id is absent.
ReopenFollowsRecords ==
    [][Reopen(TRUE) =>
          /\ ret'.op = "open" /\ ret'.err = ""
          /\ \A t \in Ids :
                LET got == GetByID(cache', tasks', t)
                IN IF disk[t] # NoFile /\ disk[t] # Unparsable
                   THEN /\ got # NoTask
                        /\ taskCopy(got) =
                               [disk[t] EXCEPT !.result =
                                   IF results[t] \in {NoResult, CutResult}
                                   THEN @ ELSE results[t]]
                        /\ got.LogLines = <<>> /\ got.LogListeners = <<>>
                   ELSE got = NoTask]_vars

\* A reopened store returns a failed task with the Result of an earlier
\* write: its result.json has outlived the Result.
ReopenedStaleResult ==
    /\ ret.op = "open" /\ ret.err = ""
    /\ \E t \in cache : /\ tasks[t].status = ScanStatusFailed
                        /\ disk[t].result = "none"
                        /\ tasks[t].result = "summary"

\* A reopening that fails: the walk of the directory returned an error.
ReopenFailed == ret.op = "open" /\ ret.err = "load" /\ phase = "down"

\* A stored task without a record: its Delete has failed after
\* os.RemoveAll had removed metadata.json.  A reopening loses it.
StoredWithoutFile == \E t \in cache : disk[t] = NoFile

\* A reopened store that returns a completed task with the fields of its
\* file and that has passed over a record cut short by a failed write.
ReopenedPastCutRecord ==
    /\ ret.op = "open"
    /\ \E t \in cache : /\ disk[t].status = ScanStatusCompleted
                        /\ taskCopy(tasks[t]) = disk[t]
    /\ \E u \in StoreIds : disk[u] = Unparsable /\ u \notin cache

\* The lines a reader gets from the durable record of a task: what
\* loadTaskFromFile puts into LogLines, and the Output field.
Transcript(file) ==
    loadTaskFromFile(file, NoResult).LogLines \o file.output

\* C22 (as claimed): once a task is terminal, in memory and in its durable
\* record, every line of its log is among the lines of the durable record.
C22_DurableTranscript ==
    \A t \in cache :
        (tasks[t].status \in Terminal /\ disk[t].status \in Terminal) =>
            \A i \in 1..Len(tasks[t].LogLines) :
                InSeq(tasks[t].LogLines[i], Transcript(disk[t]))

\* C23 (as claimed): what a read of a stored task's log returns is a prefix
\* of what any later read of it returns.
C23_LogAppendOnly ==
    [][\A t \in cache \cap cache' :
          IsPrefix(GetLogLines(tasks[t]), GetLogLines(tasks'[t]))]_vars

\* The same within one process: every step but a start of the service.
AppendOnlyInProcess ==
    [][InProcess =>
          \A t \in cache \cap cache' :
              IsPrefix(GetLogLines(tasks[t]), GetLogLines(tasks'[t]))]_vars

\* A step in which CloseAllLogListeners is called on task t: at the end of
\* executeScan (its success path or failTask), or in the recovery of a task
\* found running at a start of the service.
ClosesAll(t) ==
    \/ ExecCloseAll(t)
    \/ /\ Started
       /\ loadAllTasks(disk, results)[t].status = ScanStatusRunning

\* CloseAllLogListeners has been called on task t by its executeScan.
AfterClose(t) ==
    /\ tasks[t].status \in Terminal
    /\ exec[t].pc \notin {"failmark", "donemark", "failing", "completing",
                           "logged"}

\* C24 (as claimed): closeAll is called on a stored task only when the
\* task has become completed or failed, and never on a task on which it
\* has been called before.
C24_CloseAllOnce ==
    [][\A t \in cache :
          ClosesAll(t) =>
              /\ tasks'[t].status \in Terminal
              /\ ~AfterClose(t)]_vars

\* The viewers whose handler has registered a listener on t and has not
\* returned.
Connected(t) ==
    {v \in Viewers : /\ viewer[v].task = t
                     /\ viewer[v].pc \in {"subscribed", "streaming"}}

\* C25 (as claimed): a task that has ended, completed or failed, has no
\* listener left, and the channel of every viewer connected to it is
\* closed, so that the viewer's stream ends once it has drained the
\* channel.
C25_StreamEndsAtCompletion ==
    \A t \in Ids :
        AfterClose(t) =>
            /\ tasks[t].LogListeners = <<>>
            /\ \A v \in Connected(t) : ~chans[v].open

\* The call of CloseAllLogListeners at the end of a scan closes the channel
\* of every viewer registered at that moment and empties the listener list.
ClosedWhenTerminal ==
    [][\A t \in Ids :
          (exec[t].pc = "logged" /\ exec'[t].pc = "closed")
              => /\ tasks'[t].LogListeners = <<>>
                 /\ \A i \in 1..Len(tasks[t].LogListeners) :
                       ~chans'[tasks[t].LogListeners[i]].open]_vars

\* C26: a scan that runs past its deadline ends failed with the timeout
\* message, a scan that exits non-zero or cannot be launched ends failed
\* with the captured error; both have an end time, the failure is on the
\* task's record (and in its file when the last write succeeds), and the
\* submit call of the task had returned before the scan began.
C26_FailureOnRecord ==
    [][\A t \in cache :
          /\ (exec[t].pc = "running" /\ exec'[t].pc = "failmark") =>
                /\ exec'[t].out \in {"timeout", "exit"}
                /\ exec'[t].at = now
                /\ t < nextId
                /\ t \in cache'
          /\ (exec[t].pc = "failmark" /\ exec'[t].pc = "failing") =>
                /\ tasks'[t].status = ScanStatusFailed
                /\ tasks'[t].errorOutput =
                      (IF exec[t].out = "timeout"
                       THEN "Scan timeout exceeded" ELSE "Scan failed: exit")
                /\ tasks'[t].message = "Scan failed"
                /\ tasks'[t].hasEnd /\ tasks'[t].endTime = exec[t].at
          /\ (/\ InProcess /\ exec[t].out \in {"timeout", "exit"}
              /\ exec[t].pc \in {"failing", "logged", "closed"}) =>
                /\ tasks'[t].status = ScanStatusFailed
                /\ tasks'[t].errorOutput = tasks[t].errorOutput
                /\ tasks'[t].hasEnd
          /\ \A w \in WriteOutcomes :
                (/\ exec[t].out \in {"timeout", "exit"}
                 /\ ExecUpdateFinal(t, w)
                 /\ saveOutcome(tasks[t], w) \in {"ok", "late", "latecut"}) =>
                    /\ disk'[t].status = ScanStatusFailed
                    /\ disk'[t] = taskCopy(tasks'[t])]_vars

\* One scan has timed out and another has exited with an error.
C26_Witness ==
    \E t, u \in cache :
        /\ tasks[t].status = ScanStatusFailed /\ tasks[t].hasEnd
        /\ tasks[t].errorOutput = "Scan timeout exceeded"
        /\ tasks[u].status = ScanStatusFailed /\ tasks[u].hasEnd
        /\ tasks[u].errorOutput = "Scan failed: exit"

\* C27: a scan whose subprocess exits successfully never fails: it ends
\* completed, with a summary when its output is JSON that parses and
\* without one otherwise; a scan whose version request failed goes on to
\* run, with no error recorded, and ends like any other.
C27_ParseFailureCompletes ==
    [][\A t \in cache :
          /\ (exec[t].pc = "running" /\ exec'[t].pc = "failmark") =>
                exec'[t].out \notin {"success", "unparsed"}
          /\ (exec[t].pc = "running" /\ exec'[t].out \in {"success", "unparsed"})
                => exec'[t].pc \in {"saving", "saved"}
          /\ (exec[t].pc = "saved" /\ exec'[t].pc # "saved") =>
                exec'[t].pc = "donemark"
          /\ (exec[t].pc = "donemark" /\ exec'[t].pc = "completing") =>
                /\ exec[t].out \in {"success", "unparsed"}
                /\ tasks'[t].status = ScanStatusCompleted
                /\ tasks'[t].errorOutput = ""
                /\ tasks'[t].result =
                      (IF exec[t].out = "success" /\ tasks[t].format = "json"
                       THEN "summary"
                       ELSE IF exec[t].lines = 0 THEN "nodata"
                       ELSE "nosummary")
          /\ (exec[t].pc = "fetching" /\ exec'[t].pc = "warning") =>
                /\ tasks'[t].status = ScanStatusRunning
                /\ tasks'[t].errorOutput = ""
          /\ (InProcess /\ exec[t].pc = "warning" /\ exec'[t].pc # "warning")
                => /\ exec'[t].pc = "built"
                   /\ tasks'[t].status = ScanStatusRunning
                   /\ tasks'[t].errorOutput = ""]_vars

\* A task completed without a summary, after a version request that failed.
C27_Witness ==
    \E t \in cache :
        /\ tasks[t].status = ScanStatusCompleted
        /\ tasks[t].result = "nosummary"
        /\ InSeq("Warning: Could not fetch Trivy Server version",
                 tasks[t].LogLines)

\* C28 (as claimed): the scheduler takes a scan past its write of the
\* status running only when that write has been persisted.
C28_WriteErrorsPropagate ==
    [][\A t \in cache :
          (exec[t].pc = "started" /\ exec'[t].pc = "fetching") =>
              disk'[t].status = ScanStatusRunning]_vars

\* The scans whose trivy subprocess is running.
Scanning == {t \in Ids : exec[t].pc = "running"}

\* C29 (as claimed): at most one trivy process runs at any time.
C29_SerialExecution == Cardinality(Scanning) <= 1

\* C30 (as claimed): in a task listing, the position of a task shown as
\* queued is 1 plus the number of stored queued tasks of the same owner
\* that were created before it.
C30_QueuePositionsFifo ==
    [][ListTasksPositions =>
          \A i \in 1..Len(ret'.items) :
              LET t == ret'.items[i]
                  ahead == {u \in cache :
                              /\ u < t
                              /\ tasks[u].owner = tasks[t].owner
                              /\ tasks[u].status = ScanStatusQueued}
              IN ret'.statuses[i] = ScanStatusQueued =>
                     ret'.positions[i] = 1 + Cardinality(ahead)]_vars

\* What the positions of a listing do tell: the queue as GetQueuedTasks
\* finds it when the listing is sent.  A listed task that is then stored
\* and queued has 1 plus the number of stored queued tasks of its owner
\* created before it, any other has none.
QueuePositionsAtReturn ==
    [][ListTasksPositions =>
          \A i \in 1..Len(ret'.items) :
              LET t == ret'.items[i]
                  ahead == {u \in cache :
                              /\ u < t
                              /\ tasks[u].owner = tasks[t].owner
                              /\ tasks[u].status = ScanStatusQueued}
              IN ret'.positions[i] =
                     IF t \in cache /\ tasks[t].status = ScanStatusQueued
                     THEN 1 + Cardinality(ahead) ELSE 0]_vars

\* A listing that shows the third task at position 1: the first task is
\* running and the second, queued before the third, has left the store.
ListedThirdAtOne ==
    /\ ret.op = "listTasks" /\ ret.err = ""
    /\ \E i \in 1..Len(ret.items) :
          /\ ret.items[i] = 3
          /\ ret.positions[i] = 1
    /\ 1 \in cache /\ tasks[1].status = ScanStatusRunning
    /\ tasks[1].owner = tasks[3].owner
    /\ 2 \notin cache

\* A listing that shows a task as queued and gives it no position.
ListedQueuedWithoutPosition ==
    /\ ret.op = "listTasks" /\ ret.err = ""
    /\ \E i \in 1..Len(ret.items) :
          /\ ret.statuses[i] = ScanStatusQueued
          /\ ret.positions[i] = 0

\* A step of a delete-all that has listed its tasks.
DeleteAllStep == InProcess /\ reqs.all # NoDeleteAll /\ reqs'.all # reqs.all

\* C31 (as claimed): a delete-all for an owner is after every task of that
\* owner in the store; when it returns, all of them are gone from the
\* store; and none of its steps touches the tasks, records and reports of
\* any other owner.
C31_DeleteAllRemovesOwners ==
    [][/\ (InProcess /\ reqs.all = NoDeleteAll /\ reqs'.all # NoDeleteAll) =>
             reqs'.all.old =
                 {t \in cache : tasks[t].owner = reqs'.all.owner}
       /\ (ret'.op = "deleteAll" /\ ret' # ret /\ reqs.all = NoDeleteAll) =>
             /\ ret'.err = ""
             /\ \A t \in cache : tasks[t].owner # ret'.owner
       /\ (DeleteAllStep /\ reqs'.all = NoDeleteAll) =>
             /\ ret'.op = "deleteAll" /\ ret'.err = ""
             /\ ret'.owner = reqs.all.owner
             /\ ret'.listed = reqs.all.old
             /\ \A t \in ret'.listed : t \notin cache'
       /\ DeleteAllStep =>
             \A t \in cache : tasks[t].owner # reqs.all.owner =>
                 /\ t \in cache'
                 /\ tasks'[t] = tasks[t]
                 /\ disk'[t] = disk[t]
                 /\ reportsOf(reports', t) = reportsOf(reports, t)]_vars

\* The same but for the tasks whose removal the file system refused.
DeleteAllWithoutFaults ==
    [][/\ (DeleteAllStep /\ reqs'.all = NoDeleteAll) =>
             /\ ret'.op = "deleteAll" /\ ret'.err = ""
             /\ ret'.listed = reqs.all.old
             /\ \A t \in ret'.listed \ ret'.logged : t \notin cache'
       /\ DeleteAllStep =>
             \A t \in cache : tasks[t].owner # reqs.all.owner =>
                 /\ t \in cache'
                 /\ tasks'[t] = tasks[t]
                 /\ disk'[t] = disk[t]
                 /\ reportsOf(reports', t) = reportsOf(reports, t)]_vars

\* One page of 10000 holds every task of an owner who has 10001.
DeleteAllReachesAll == leftByDeleteAll(DeleteAllPageSize + 1) = 0

\* The lines a step appends to the log of task t.
Appended(t) ==
    SubSeq(tasks'[t].LogLines, Len(tasks[t].LogLines) + 1,
           Len(tasks'[t].LogLines))

\* C32: a step that appends lines to a task puts them, in append order and
\* once each, behind what is buffered for every listener registered at that
\* moment whose buffer has room for them; a listener starts with an empty
\* buffer, and only the listener's own read takes a line out of it (the
\* oldest one, which goes to the client).  So a listener that never fills up
\* is handed exactly the lines appended since it registered.
C32_DeliveryExactlyOnce ==
    [][\A t \in Ids :
          /\ IsPrefix(tasks[t].LogLines, tasks'[t].LogLines)
          /\ \A c \in Listening(t) :
                IF Appended(t) # <<>>
                THEN Len(chans[c].buf) + Len(Appended(t)) <= ListenerCap
                        => chans'[c].buf = chans[c].buf \o Appended(t)
                ELSE \/ chans'[c].buf = chans[c].buf
                     \/ /\ StreamRecv(c)
                        /\ chans[c].buf = <<Head(chans[c].buf)>> \o chans'[c].buf
                        /\ viewer'[c].out =
                               Append(viewer[c].out, Head(chans[c].buf))
          /\ \A c \in Listening(t)' \ Listening(t) :
                chans'[c].open /\ chans'[c].buf = <<>>]_vars

\* Two listeners of one task that registered at different moments and have
\* read nothing yet: each holds the lines appended since it registered, the
\* later one fewer.
C32_Witness ==
    \E t \in Ids : \E c, d \in Listening(t) :
        /\ viewer[c].pc = "subscribed" /\ viewer[d].pc = "subscribed"
        /\ Len(chans[d].buf) >= 1
        /\ Len(chans[c].buf) > Len(chans[d].buf)
        /\ Len(tasks[t].LogLines) > Len(chans[c].buf)
        /\ \A x \in {c, d} :
              chans[x].buf =
                  SubSeq(tasks[t].LogLines,
                         Len(tasks[t].LogLines) - Len(chans[x].buf) + 1,
                         Len(tasks[t].LogLines))

\* The lines of a log that one producer appended.
OutLinesOf(log) ==
    SelectSeq(log, LAMBDA l : \E k \in 1..ProducerLines : l = OutLine(k))

ErrLinesOf(log) ==
    SelectSeq(log, LAMBDA l : \E k \in 1..ProducerLines : l = ErrLine(k))

\* The number of lines at the head of a log that no output stream appended.
PrefaceLen(t) == Len(tasks[t].LogLines) - exec[t].lines - exec[t].elines

\* C33: while the two output streams of a scan append to its log in any
\* interleaving, the log holds, behind the lines logged before the
\* subprocess started, exactly one line per append made: the stdout lines in
\* the order of stdout and the stderr lines in the order of stderr.
C33_ConcurrentAppendsKept ==
    \A t \in Ids :
        exec[t].pc = "running" =>
            /\ PrefaceLen(t) >= 0
            /\ \E a \in Answers :
                  SubSeq(tasks[t].LogLines, 1, PrefaceLen(t)) =
                      StartLines(a[1], a[2], a[3])
            /\ OutLinesOf(tasks[t].LogLines) =
                   [i \in 1..exec[t].lines |-> OutLine(i)]
            /\ ErrLinesOf(tasks[t].LogLines) =
                   [i \in 1..exec[t].elines |-> ErrLine(i)]

\* Both streams have appended all their lines, a stderr line first and a
\* stdout line last.
C33_Witness ==
    \E t \in Ids :
        /\ exec[t].pc = "running"
        /\ exec[t].lines = ProducerLines /\ exec[t].elines = ProducerLines
        /\ PrefaceLen(t) >= 3
        /\ tasks[t].LogLines[PrefaceLen(t) + 1] = ErrLine(1)
        /\ tasks[t].LogLines[Len(tasks[t].LogLines)] = OutLine(ProducerLines)

\* The step in which the handler of viewer v returns and its deferred
\* RemoveLogListener runs.
Unsubscribes(v) ==
    /\ viewer[v].pc = "streaming"
    /\ viewer'[v].pc \in DonePcs

\* C34: the unsubscribe of a registered listener closes its channel and
\* takes it out of the task's listeners, keeping the log, the order of the
\* other listeners and every other channel as they are; the unsubscribe of
\* a listener that is not registered changes neither the task nor any
\* channel; and the channel of a handler that has returned never changes
\* again, whatever is appended.
C34_UnsubscribeFrame ==
    [][\A v \in Viewers :
          /\ Unsubscribes(v) =>
                LET t == viewer[v].task
                IN /\ IF v \in Listening(t)
                      THEN /\ ~chans'[v].open
                           /\ chans'[v].buf = chans[v].buf
                           /\ v \notin Listening(t)'
                           /\ tasks'[t].LogListeners =
                                  SelectSeq(tasks[t].LogListeners,
                                            LAMBDA x : x # v)
                      ELSE /\ chans'[v] = chans[v]
                           /\ tasks'[t].LogListeners = tasks[t].LogListeners
                   /\ tasks'[t].LogLines = tasks[t].LogLines
                   /\ \A c \in Viewers \ {v} : chans'[c] = chans[c]
                   /\ \A u \in Ids \ {t} : tasks'[u] = tasks[u]
          /\ (viewer[v].pc \in DonePcs /\ viewer'[v].pc \in DonePcs) =>
                chans'[v] = chans[v]]_vars

\* A viewer has disconnected while registered; the other viewer of the task
\* is still registered and has since been handed a line that the first one
\* was not.
C34_Witness ==
    \E t \in Ids, v, c \in Viewers :
        /\ viewer[v].pc = "gone" /\ viewer[v].task = t
        /\ ~chans[v].open /\ chans[v].buf # <<>>
        /\ v \notin Listening(t) /\ c \in Listening(t)
        /\ chans[c].open
        /\ InSeq(tasks[t].LogLines[Len(tasks[t].LogLines)], chans[c].buf)
        /\ ~InSeq(tasks[t].LogLines[Len(tasks[t].LogLines)], chans[v].buf)

\* The slots that processQueue holds between taking one and deciding.
SweepHeld == IF sweepTick = 1 THEN 1 ELSE 0

\* C35 (as claimed): in every reachable state the number of slots held
\* equals the number of scan executions in flight.
C35_SlotsEqualExecutions == workerPool = Cardinality(InFlight)

\* C35 (as amended): the slots held are those of the executions in flight
\* plus the one that a sweep tick holds between taking it and giving it
\* back, never more than the worker limit and never fewer than none; an
\* execution that ends, however it ends
\* and whether or not its task is still stored, gives back exactly its one
\* slot; a tick that found no task gives its slot back and starts nothing.
C35_SlotAccounting ==
    /\ [](/\ workerPool = Cardinality(InFlight) + SweepHeld
          /\ workerPool >= 0
          /\ workerPool <= WorkerLimit)
    /\ [][/\ \A t \in Ids :
                (InProcess /\ exec[t].pc \in ScanPcs
                 /\ exec'[t].pc \notin ScanPcs) =>
                    /\ exec[t].pc = "updated"
                    /\ workerPool' = workerPool - 1
                    /\ InFlight' = InFlight \ {t}
          /\ processQueueRelease =>
                /\ workerPool' = workerPool - 1
                /\ InFlight' = InFlight]_vars

\* With a limit of 1: the first scan has ended and given its slot back, the
\* second one got that slot, was deleted while running and still holds it.
C35_Witness ==
    /\ WorkerLimit = 1 /\ workerPool = 1
    /\ 1 \in cache /\ tasks[1].status \in Terminal /\ exec[1].pc = "none"
    /\ 2 \notin cache /\ exec[2].pc = "running"

\* The step executes close(ch) on the channel of viewer c: the end of a scan
\* closes every listener of its task, an unsubscribe closes its own channel
\* when it finds it in the list.
Closes(c) ==
    \/ \E t \in Ids :
          /\ c \in Listening(t)
          /\ ExecCloseAll(t)
    \/ /\ Unsubscribes(c)
       /\ c \in Listening(viewer[c].task)

\* C36: every channel in a task's listener list is open and is there once,
\* so that no append sends on a closed channel; a step that closes a channel
\* finds it open; and what a closed channel holds only shrinks, by its
\* handler reading it.
C36_NoDoubleCloseNoSendOnClosed ==
    /\ [](\A t \in Ids :
             /\ \A c \in Listening(t) : chans[c].open
             /\ \A i, j \in 1..Len(tasks[t].LogListeners) :
                   i # j => tasks[t].LogListeners[i] # tasks[t].LogListeners[j])
    /\ [][\A c \in Viewers :
             /\ Closes(c) => (chans[c].open /\ ~chans'[c].open)
             /\ (~chans[c].open /\ viewer[c].pc # "got") =>
                   /\ ~chans'[c].open
                   /\ \/ chans'[c].buf = chans[c].buf
                      \/ /\ chans[c].buf # <<>>
                         /\ chans'[c].buf = Tail(chans[c].buf)]_vars

\* A viewer has unsubscribed after the end of the scan had closed its
\* channel, and the other viewer, registered after that end, is listening
\* on an open channel.
C36_Witness ==
    \E t \in Ids, v, c \in Viewers :
        /\ viewer[v].task = t /\ viewer[v].pc = "closed"
        /\ ~chans[v].open
        /\ tasks[t].status \in Terminal
        /\ c \in Listening(t) /\ chans[c].open

\* The viewers listening on a task that has ended: its listeners were closed
\* and taken off the list at its end, so these registered afterwards.
LateListeners(t) ==
    IF AfterClose(t) THEN Listening(t) ELSE {}

\* C37: a viewer that subscribes to a task that has ended is registered on
\* an open, empty channel; as long as it is registered the channel stays
\* open and empty, so its stream cannot end by closure; and it leaves the
\* list only by its own unsubscribe on client disconnect.
C37_LateListenerNeverClosed ==
    /\ [](\A t \in Ids : \A v \in LateListeners(t) :
             /\ chans[v].open /\ chans[v].buf = <<>>
             /\ viewer[v].task = t
             /\ viewer[v].pc \in {"subscribed", "streaming"}
             /\ ~ENABLED StreamClosed(v)
             /\ ~ENABLED StreamRecv(v))
    /\ [][\A t \in Ids, v \in Viewers :
             /\ (viewer[v].pc = "got" /\ viewer'[v].pc = "subscribed"
                 /\ viewer[v].task = t /\ AfterClose(t))
                   => v \in LateListeners(t)'
             /\ (v \in LateListeners(t) /\ v \notin LateListeners(t)')
                   => /\ viewer'[v].pc = "gone"
                      /\ tasks'[t].status = tasks[t].status
                      /\ tasks'[t].LogLines = tasks[t].LogLines]_vars

\* A viewer connected to a completed task: it has been sent the whole log
\* from the replay and waits on an open, empty channel.
C37_Witness ==
    \E t \in Ids, v \in Viewers :
        /\ tasks[t].status = ScanStatusCompleted
        /\ v \in LateListeners(t)
        /\ viewer[v].pc = "streaming"
        /\ viewer[v].out = tasks[t].LogLines
        /\ chans[v].open /\ chans[v].buf = <<>>

\* The last line of a sequence of lines.
Last(q) == q[Len(q)]

\* The steps of the three ways to a terminal state, judged at task t: the
\* close at the end of executeScan (success path and failTask) finds the
\* task terminal with its final line logged and closes every listener
\* without taking anything out of its channel; the final AddLog calls hand
\* their lines to every listener with room; the recovery at a start of the
\* service leaves the task failed, its last line logged and no listener.
EndsInOrder(t) ==
    /\ (exec[t].pc = "logged" /\ exec'[t].pc = "closed") =>
          /\ tasks[t].status \in Terminal
          /\ tasks'[t].status = tasks[t].status
          /\ Last(tasks[t].LogLines) \in {"Scan completed at",
                                           "Scan failed at"}
          /\ tasks'[t].LogLines = tasks[t].LogLines
          /\ \A c \in Listening(t) :
                /\ chans[c].open /\ ~chans'[c].open
                /\ chans'[c].buf = chans[c].buf
          /\ Listening(t)' = {}
    /\ (exec[t].pc \in {"completing", "failing"}
        /\ exec'[t].pc \in ScanPcs /\ exec'[t].pc # exec[t].pc) =>
          /\ exec'[t].pc = "logged"
          /\ Appended(t) # <<>>
          /\ \A c \in Listening(t) :
                Len(chans[c].buf) + Len(Appended(t)) <= ListenerCap
                    => chans'[c].buf = chans[c].buf \o Appended(t)
    /\ (Started /\ loadAllTasks(disk, results)[t].status
                       = ScanStatusRunning) =>
          /\ tasks'[t].status = ScanStatusFailed
          /\ Last(tasks'[t].LogLines) = Last(InterruptLines)
          /\ tasks'[t].LogListeners = <<>>

\* A viewer whose stream has ended by closure sees a terminal status and the
\* last line it was sent is the last line of the log.
ClosedStreamsSawTheEnd ==
    \A v \in Viewers :
        viewer[v].pc = "closed" =>
            LET t == viewer[v].task
            IN /\ tasks[t].status \in Terminal
               /\ viewer[v].out # <<>>
               /\ Last(viewer[v].out) = Last(tasks[t].LogLines)

\* C38 (as claimed): on every way to a terminal state, the end of a scan
\* and the recovery at a start, the terminal status is set and the final
\* lines are appended before the listeners are closed; a stored task whose
\* listeners were closed keeps its status and gets no further line; and a
\* viewer whose stream has ended by closure sees a terminal status and has
\* been sent the final line.
C38_FinalLinesBeforeClose ==
    /\ [][\A t \in Ids :
             /\ EndsInOrder(t)
             /\ (AfterClose(t) /\ t \in cache') =>
                   /\ tasks'[t].status = tasks[t].status
                   /\ IsPrefix(tasks'[t].LogLines, tasks[t].LogLines)]_vars
    /\ []ClosedStreamsSawTheEnd

\* What holds within one process, and for the recovery of a task found
\* running: the three ways end in order; between two starts of the service
\* a task whose listeners were closed keeps its status and its log; and a
\* viewer whose stream has ended by closure saw the end.
FinalLinesBeforeCloseInProcess ==
    /\ [][\A t \in Ids :
             /\ EndsInOrder(t)
             /\ (InProcess /\ AfterClose(t)) =>
                   /\ tasks'[t].status = tasks[t].status
                   /\ tasks'[t].LogLines = tasks[t].LogLines]_vars
    /\ []ClosedStreamsSawTheEnd

\* The stream of a viewer of a failed task has ended by closure; the last
\* line it was sent is the final line of the log.
ClosedStreamOfFailedTask ==
    \E v \in Viewers :
        /\ viewer[v].pc = "closed"
        /\ tasks[viewer[v].task].status = ScanStatusFailed
        /\ Last(viewer[v].out) = "Scan failed at"
        /\ Len(viewer[v].out) >= Len(FailLines) + 1

\* The third way to a terminal state, the recovery at a start of the
\* service: the task is failed, its last line is the recovery's last line
\* and it has no listener.
RecoveryEndsLog ==
    [][Started =>
          \A t \in Ids :
              loadAllTasks(disk, results)[t].status = ScanStatusRunning =>
                  /\ tasks'[t].status = ScanStatusFailed
                  /\ Last(tasks'[t].LogLines) = Last(InterruptLines)
                  /\ tasks'[t].LogListeners = <<>>]_vars

\* The tasks that were stored and have been deleted.
Deleted == {t \in 1..(nextId - 1) : t \notin cache}

\* C39 (as claimed): a deleted task stays deleted while and after its
\* execution finishes: it does not come back into the index, it has no
\* record on disk and no report file, and the end of its execution gives
\* its slot back.
C39_DeletedStaysDeleted ==
    /\ [](\A t \in Deleted : disk[t] = NoFile /\ reportsOf(reports, t) = {})
    /\ [][\A t \in Deleted :
             /\ t \in Deleted'
             /\ (exec[t].pc \in ScanPcs /\ exec'[t].pc \notin ScanPcs)
                   => workerPool' = workerPool - 1]_vars

\* What holds: the record never comes back and the slot is released; and a
\* saveReport that looks the task up after the deletion writes no report.
DeletedBeforeSaveReport ==
    /\ [](\A t \in Deleted : disk[t] = NoFile)
    /\ [][\A t \in Deleted :
             /\ t \in Deleted'
             /\ (exec[t].pc \in ScanPcs /\ exec'[t].pc \notin ScanPcs)
                   => workerPool' = workerPool - 1
             /\ exec[t].pc = "running" => exec'[t].pc # "saving"]_vars

====
